---- MODULE Spec2Model ----
(***************************************************************************)
(* Sentra CLI core: the resource ledger (ContextManager), the approval     *)
(* gate (PermissionManager) and the dispatcher with its execution pipeline *)
(* (AgentOrchestrator, TaskExecutor).                                      *)
(*                                                                         *)
(* The specifications share the variables; each takes the operations of   *)
(* one part of the program:                                                *)
(*   LedgerSpec, SoleCallerSpec, ConcurrentSpec   calls on ContextManager; *)
(*   GateSpec, RiskSpec      PermissionManager with its timers and callers;*)
(*   DispatchSpec, DependencySpec, EmergencySpec, RestartSpec,             *)
(*   RequeueSpec, SelectionSpec   AgentOrchestrator drain loops driving    *)
(*                                TaskExecutor.                            *)
(* Node runs every callback to its next macrotask boundary (I/O, timer)    *)
(* before any other callback, so one action is the code between two such   *)
(* boundaries; awaits that only cost microtask ticks are inside an action. *)
(***************************************************************************)
EXTENDS Integers, Sequences, FiniteSets, TLC

\* ------------------------------------------------------------------------
\* Shared vocabulary
\* ------------------------------------------------------------------------

\* The roster, in declaration order (both classes build it in this order).
PersonaList ==
    << "requirements-analyst", "ui-ux-designer", "frontend-developer",
       "backend-architect", "qa-engineer", "security-analyst",
       "technical-writer", "devops-engineer" >>

Personas == { PersonaList[i] : i \in 1..Len(PersonaList) }

\* Map.set: f with key k set to v
Extend(f, k, v) == [x \in DOMAIN f \cup {k} |-> IF x = k THEN v ELSE f[x]]

VARIABLES
    \* ---- ContextManager
    contextWindows,   \* persona -> [items : Seq(item), currentUsage : Int]
    agentUsage,       \* persona -> usage units u, standing for u / capacity * 100 percent
    totalUsage,       \* projectContext.totalUsage, scaled (see ScaledPercent)
    addCalls,         \* addContext calls in flight: slot -> [pc, persona, item, ...]
    emergencyCall,    \* the emergencyCleanup call in flight: [pc, next, marked]
    \* ---- PermissionManager
    requests,         \* request id -> the PermissionRequest object, for the ids created
    pendingRequests,  \* ids held by the pendingRequests map
    permissionHistory,\* id -> PermissionResponse, for the ids the map holds
    timers,           \* request id -> "unarmed" | "armed" | "fired"
    calls,            \* call id -> one requestPermission invocation
    sent,             \* id -> channels that delivered the approval notification
    gateRet,          \* how the last respondToRequest / cancelRequest returned, and its events
    riskRet,          \* what the last direct call of assessRisk / requiresApproval returned
    \* ---- AgentOrchestrator and TaskExecutor
    agents,           \* persona -> [status, currentTask, contextUsage]
    activeAgents,     \* the activeAgents Set, in insertion order
    taskQueue,        \* Seq of task ids
    isRunning,
    taskStatus,       \* task id -> Task.status
    taskAgent,        \* task id -> Task.assignedAgent ("" while unset)
    loops,            \* drain loop -> [pc, task, error, emitted]
    stopCall,         \* the stop() call in flight: [pc, persona]
    executingTasks,   \* ids in TaskExecutor.executingTasks
    completedTasks,   \* id -> "none" | "success" | "failure" (ExecutionResult.success)
    lifecycleCalls,   \* calls of start, stop and emergencyStop made
    submitOrder,      \* task ids in the order assignTask accepted them
    orchRet           \* the last assignTask: [op, task, error, emitted]

ledgerCallVars == << addCalls, emergencyCall >>
ledgerVars == << contextWindows, agentUsage, totalUsage, ledgerCallVars >>
gateVars ==
    << requests, pendingRequests, permissionHistory, timers, calls, sent, gateRet, riskRet >>
dispatchVars ==
    << agents, activeAgents, taskQueue, isRunning, taskStatus, taskAgent, loops,
       stopCall, executingTasks, completedTasks, lifecycleCalls, submitOrder, orchRet >>
vars == << ledgerVars, gateVars, dispatchVars >>

\* ------------------------------------------------------------------------
\* ContextManager
\* ------------------------------------------------------------------------

maxPercentage == 40
warningThreshold == 35
baseCapacity == 8000

\* Bound: addContext is offered only while the window holds fewer items.
MaxWindowItems == 3
MaxAddCalls == 1

AddSlots == 1..MaxAddCalls

\* adjustments, in tenths
CapacityTenths(persona) ==
    CASE persona = "requirements-analyst" -> 12
      [] persona = "ui-ux-designer" -> 9
      [] persona = "frontend-developer" -> 11
      [] persona = "backend-architect" -> 13
      [] persona = "qa-engineer" -> 10
      [] persona = "security-analyst" -> 8
      [] persona = "technical-writer" -> 7
      [] persona = "devops-engineer" -> 10

getContextCapacity(persona) == (baseCapacity * CapacityTenths(persona)) \div 10

\* usagePercentage > limit, for usagePercentage = units / capacity * 100
PercentAbove(units, persona, limit) == units * 100 > limit * getContextCapacity(persona)
PercentAtLeast(units, persona, limit) == units * 100 >= limit * getContextCapacity(persona)

TypeSize(type) ==
    CASE type = "file" -> 100
      [] type = "interface" -> 50
      [] type = "dependency" -> 25
      [] type = "config" -> 30

\* Math.round of a number of quarters: halves go up.
RoundQuarters(q) == (q + 2) \div 4

\* An item as the caller hands it over: contentLen = 0 is a missing or empty content.
calculateItemSize(item) ==
    IF item.contentLen > 0
    THEN RoundQuarters(Len(item.path) + item.contentLen)
    ELSE RoundQuarters(Len(item.path) + 4 * TypeSize(item.type))

typePriority(type) ==
    CASE type = "config" -> 1
      [] type = "dependency" -> 2
      [] type = "file" -> 3
      [] type = "interface" -> 4

\* The callers' items and the personas they are added for.
ItemInputs ==
    { [type |-> "config", path |-> "/c.json", contentLen |-> 3600],
      [type |-> "file", path |-> "/a.ts", contentLen |-> 6000],
      [type |-> "interface", path |-> "/a.ts", contentLen |-> 0],
      [type |-> "dependency", path |-> "/d", contentLen |-> 0],
      [type |-> "file", path |-> "/big.ts", contentLen |-> 50000] }

ItemPaths == { i.path : i \in ItemInputs } \cup { "/none" }

\* The technical writer's callers add any of the items, the security
\* analyst's the configuration file.
ItemsFor(persona) ==
    IF persona = "technical-writer" THEN ItemInputs
    ELSE { i \in ItemInputs : i.type = "config" }

LedgerPersonas == { "technical-writer", "security-analyst" }

\* agentUsage units as a percentage scaled by ScaleOf, so that the mean over the
\* eight personas is an integer sum (totalUsage = ScaledSum / (8 * ScaleOf)).
ScaleOf == 5 * 7 * 8 * 9 * 11 * 13
ScaledPercent(units, persona) == units * (ScaleOf \div (CapacityTenths(persona)))

updateTotalUsage(usage) ==
    LET pct(i) == ScaledPercent(usage[PersonaList[i]], PersonaList[i])
    IN  pct(1) + pct(2) + pct(3) + pct(4) + pct(5) + pct(6) + pct(7) + pct(8)

\* The ledger as one value, for the operators below.
Ledger == [w |-> contextWindows, u |-> agentUsage, t |-> totalUsage]

IndexOfPath(items, path) ==
    IF \E i \in 1..Len(items) : items[i].path = path
    THEN CHOOSE i \in 1..Len(items) :
            /\ items[i].path = path
            /\ \A j \in 1..(i - 1) : items[j].path # path
    ELSE 0

RemoveAt(s, i) == SubSeq(s, 1, i - 1) \o SubSeq(s, i + 1, Len(s))

\* a removeContext that refreshes the tracking and reports a removal whatever it finds
removeContextOpAlways(l, persona, path) ==
    LET u2 == [l.u EXCEPT ![persona] = l.w[persona].currentUsage]
    IN  [l |-> [w |-> l.w, u |-> u2, t |-> updateTotalUsage(u2)],
         found |-> TRUE, size |-> 0]

\* removeContext on a ledger value: [l |-> ledger after, found |-> its return value]
removeContextOp(l, persona, path) ==
    LET win == l.w[persona]
        idx == IndexOfPath(win.items, path)
    IN  IF idx = 0
        THEN [l |-> l, found |-> FALSE, size |-> 0]
        ELSE LET removed == win.items[idx]
                 usage == win.currentUsage - removed.size
                 u2 == [l.u EXCEPT ![persona] = usage]
             IN  [l |-> [w |-> [l.w EXCEPT ![persona] =
                                  [items |-> RemoveAt(win.items, idx),
                                   currentUsage |-> usage]],
                         u |-> u2,
                         t |-> updateTotalUsage(u2)],
                  found |-> TRUE,
                  size |-> removed.size]

OfType(items, type) == SelectSeq(items, LAMBDA it : it.type = type)

\* [...items].sort by typePriority; Array.prototype.sort is stable.
SortedItems(items) ==
    OfType(items, "config") \o OfType(items, "dependency")
        \o OfType(items, "file") \o OfType(items, "interface")

\* a cleanup that chooses the first of the sorted items and no other
ItemsToRemoveFirst(sorted, freedSpace, requiredSpace) ==
    IF sorted = << >> THEN << >> ELSE << Head(sorted).path >>

\* The paths pushed to itemsToRemove: sorted items until freedSpace >= requiredSpace.
RECURSIVE ItemsToRemove(_, _, _)
ItemsToRemove(sorted, freedSpace, requiredSpace) ==
    IF sorted = << >> \/ freedSpace >= requiredSpace
    THEN << >>
    ELSE << Head(sorted).path >>
            \o ItemsToRemove(Tail(sorted), freedSpace + Head(sorted).size, requiredSpace)

\* The removeContext calls of performAutomaticCleanup, up to the first one that
\* removes an item and so awaits persistContextState; a path no longer in the
\* window returns false without yielding.
RECURSIVE RemoveUntilYield(_, _, _)
RemoveUntilYield(l, persona, paths) ==
    IF paths = << >> THEN [l |-> l, rest |-> << >>, yielded |-> FALSE]
    ELSE LET r == removeContextOp(l, persona, Head(paths))
         IN  IF r.found THEN [l |-> r.l, rest |-> Tail(paths), yielded |-> TRUE]
             ELSE RemoveUntilYield(l, persona, Tail(paths))

\* the second check of addContext left out
updatedPercentageIgnored(l, persona, itemSize) == FALSE

\* a second check that takes the cleanup to have emptied the window
updatedPercentageOfItem(l, persona, itemSize) ==
    PercentAbove(itemSize, persona, maxPercentage)

\* updatedPercentage > maxPercentage, on the window as it is after the cleanup
updatedPercentageOver(l, persona, itemSize) ==
    PercentAbove(l.w[persona].currentUsage + itemSize, persona, maxPercentage)

\* a push that leaves currentUsage as it was
PushItemUncounted(l, persona, item, itemSize, newUsage) ==
    LET u2 == [l.u EXCEPT ![persona] = newUsage]
    IN  [w |-> [l.w EXCEPT ![persona].items =
                  Append(l.w[persona].items,
                         [type |-> item.type, path |-> item.path, size |-> itemSize])],
         u |-> u2,
         t |-> updateTotalUsage(u2)]

\* window.items.push(item) and the tracking that follows it; usagePercentage
\* is the value computed when addContext was entered.
PushItem(l, persona, item, itemSize, newUsage) ==
    LET u2 == [l.u EXCEPT ![persona] = newUsage]
    IN  [w |-> [l.w EXCEPT ![persona] =
                  [items |-> Append(l.w[persona].items,
                                    [type |-> item.type, path |-> item.path,
                                     size |-> itemSize]),
                   currentUsage |-> l.w[persona].currentUsage + itemSize]],
         u |-> u2,
         t |-> updateTotalUsage(u2)]

cleanupOp(l, persona) ==
    LET u2 == [l.u EXCEPT ![persona] = 0]
    IN  [w |-> [l.w EXCEPT ![persona] = [items |-> << >>, currentUsage |-> 0]],
         u |-> u2,
         t |-> updateTotalUsage(u2)]

\* emergencyCleanup from the i-th window on, up to its next await: the cleanup
\* of the first window that holds items, or, with none left, the reset.
RECURSIVE EmergencyFrom(_, _)
EmergencyFrom(l, i) ==
    IF i > Len(PersonaList)
    THEN [l |-> [w |-> l.w, u |-> [p \in Personas |-> 0], t |-> 0],
          next |-> 0, yielded |-> FALSE]
    ELSE IF Len(l.w[PersonaList[i]].items) > 0
    THEN [l |-> cleanupOp(l, PersonaList[i]), next |-> i + 1, yielded |-> TRUE]
    ELSE EmergencyFrom(l, i + 1)

SetLedger(l) ==
    /\ contextWindows' = l.w
    /\ agentUsage' = l.u
    /\ totalUsage' = l.t

NoAdd ==
    [pc |-> "idle", persona |-> "", item |-> [type |-> "", path |-> "", contentLen |-> 0],
     size |-> 0, usage |-> 0, limit |-> 0, toRemove |-> << >>, evicted |-> FALSE,
     warning |-> FALSE]

\* A call that has pushed its item; what is left of it is the persist, the
\* warning (usagePercentage >= warningThreshold) and the return.
Pushed(call) ==
    [NoAdd EXCEPT !.pc = "persisting", !.persona = call.persona, !.evicted = call.evicted,
                  !.warning = PercentAtLeast(call.usage, call.persona, warningThreshold)]

\* A call that has thrown ContextOverflowError(updatedPercentage, maxPercentage):
\* usage is the updatedUsage of the second check, limit the percentage thrown.
Thrown(call, updatedUsage) ==
    [NoAdd EXCEPT !.pc = "failed", !.persona = call.persona, !.size = call.size,
                  !.usage = updatedUsage, !.limit = maxPercentage,
                  !.evicted = call.evicted]

\* a rejection that leaves the item in the window
RejectPushed(slot, call, l) ==
    /\ SetLedger(PushItem(l, call.persona, call.item, call.size, call.usage))
    /\ addCalls' = [addCalls EXCEPT ![slot] =
                      Thrown(call, l.w[call.persona].currentUsage + call.size)]

\* The throw of the second check: nothing is pushed.
Reject(slot, call, l) ==
    /\ SetLedger(l)
    /\ addCalls' = [addCalls EXCEPT ![slot] =
                      Thrown(call, l.w[call.persona].currentUsage + call.size)]

\* addContext from the removals of its cleanup on: the next removal and its
\* await, or the second check and then the throw or the push.
Admit(slot, call) ==
    LET r == RemoveUntilYield(Ledger, call.persona, call.toRemove)
    IN  IF r.yielded
        THEN /\ SetLedger(r.l)
             /\ addCalls' = [addCalls EXCEPT ![slot] =
                               [call EXCEPT !.pc = "evicting", !.toRemove = r.rest,
                                            !.evicted = TRUE]]
        ELSE IF updatedPercentageOver(r.l, call.persona, call.size)
        THEN Reject(slot, call, r.l)
        ELSE /\ SetLedger(PushItem(r.l, call.persona, call.item, call.size, call.usage))
             /\ addCalls' = [addCalls EXCEPT ![slot] = Pushed(call)]

\* addContext is called: to the push, or into performAutomaticCleanup.
AddContext(slot, persona, item) ==
    /\ addCalls[slot].pc = "idle"
    /\ \A k \in DOMAIN addCalls : addCalls[k].pc = "idle" => slot <= k
    /\ Len(contextWindows[persona].items) < MaxWindowItems
    /\ LET itemSize == calculateItemSize(item)
           newUsage == contextWindows[persona].currentUsage + itemSize
           call == [NoAdd EXCEPT !.persona = persona, !.item = item, !.size = itemSize,
                                 !.usage = newUsage]
       IN  IF PercentAbove(newUsage, persona, maxPercentage)
           THEN Admit(slot, [call EXCEPT !.toRemove =
                               ItemsToRemove(SortedItems(contextWindows[persona].items),
                                             0, itemSize)])
           ELSE /\ SetLedger(PushItem(Ledger, persona, item, itemSize, newUsage))
                /\ addCalls' = [addCalls EXCEPT ![slot] = Pushed(call)]
    /\ UNCHANGED << emergencyCall, gateVars, dispatchVars >>

\* The persistContextState of a removal is done: performAutomaticCleanup goes on.
AddContextResume(slot) ==
    /\ addCalls[slot].pc = "evicting"
    /\ Admit(slot, addCalls[slot])
    /\ UNCHANGED << emergencyCall, gateVars, dispatchVars >>

\* The persistContextState of the push is done: addContext emits the warning
\* if usagePercentage >= warningThreshold, and returns; or the caller gets the
\* error thrown.
AddContextReturn(slot) ==
    /\ addCalls[slot].pc \in {"persisting", "failed"}
    /\ addCalls' = [addCalls EXCEPT ![slot] = NoAdd]
    /\ UNCHANGED << contextWindows, agentUsage, totalUsage, emergencyCall, gateVars,
                    dispatchVars >>

RemoveContext(persona, path) ==
    /\ LET r == removeContextOp(Ledger, persona, path)
       IN  SetLedger(r.l)
    /\ UNCHANGED << addCalls, emergencyCall, gateVars, dispatchVars >>

Cleanup(persona) ==
    /\ SetLedger(cleanupOp(Ledger, persona))
    /\ UNCHANGED << addCalls, emergencyCall, gateVars, dispatchVars >>

NoEmergency == [pc |-> "idle", next |-> 0, marked |-> {}]

\* emergencyCleanup from window i on, to its next await or to its end. marked
\* holds the agents the emergencyStop that made the call set to error (none
\* for a call from elsewhere), for as long as that emergencyStop is in flight.
EmergencyStep(i, marked) ==
    LET r == EmergencyFrom(Ledger, i)
    IN  /\ SetLedger(r.l)
        /\ emergencyCall' = IF r.yielded
                            THEN [pc |-> "cleaning", next |-> r.next, marked |-> marked]
                            ELSE NoEmergency

\* emergencyCleanup is called (one call in flight at a time).
EmergencyCleanup ==
    /\ emergencyCall.pc = "idle"
    /\ EmergencyStep(1, {})
    /\ UNCHANGED << addCalls, gateVars, dispatchVars >>

EmergencyCleanupResume ==
    /\ emergencyCall.pc = "cleaning"
    /\ EmergencyStep(emergencyCall.next, emergencyCall.marked)
    /\ UNCHANGED << addCalls, gateVars, dispatchVars >>

\* calculateUsage refreshes the cached agentUsage entry and nothing else.
CalculateUsage(persona) ==
    /\ agentUsage' = [agentUsage EXCEPT ![persona] = contextWindows[persona].currentUsage]
    /\ UNCHANGED << contextWindows, totalUsage, addCalls, emergencyCall, gateVars,
                    dispatchVars >>

LedgerNext ==
    \/ \E k \in AddSlots, p \in LedgerPersonas : \E i \in ItemsFor(p) : AddContext(k, p, i)
    \/ \E k \in AddSlots : AddContextResume(k)
    \/ \E k \in AddSlots : AddContextReturn(k)
    \/ \E p \in LedgerPersonas, path \in ItemPaths : RemoveContext(p, path)
    \/ \E p \in LedgerPersonas : Cleanup(p)
    \/ EmergencyCleanup
    \/ EmergencyCleanupResume
    \/ \E p \in LedgerPersonas : CalculateUsage(p)

LedgerInit ==
    /\ contextWindows = [p \in Personas |-> [items |-> << >>, currentUsage |-> 0]]
    /\ agentUsage = [p \in Personas |-> 0]
    /\ totalUsage = 0
    /\ addCalls = [k \in AddSlots |-> NoAdd]
    /\ emergencyCall = NoEmergency

\* One caller that awaits each addContext before it makes the next, with
\* removeContext calls at any await.
SoleCaller == { 1 }

SoleCallerNext ==
    \/ \E k \in SoleCaller, p \in LedgerPersonas : \E i \in ItemsFor(p) : AddContext(k, p, i)
    \/ \E k \in SoleCaller : AddContextResume(k)
    \/ \E k \in SoleCaller : AddContextReturn(k)
    \/ \E p \in LedgerPersonas, path \in ItemPaths : RemoveContext(p, path)

\* Two callers of one persona's window: a second addContext may be made while
\* the first is at an await, and removeContext at any await of either.
ConcurrentCalls == 2
ConcurrentSlots == 1..ConcurrentCalls
ConcurrentPersonas == { "technical-writer" }

ConcurrentNext ==
    \/ \E k \in ConcurrentSlots, p \in ConcurrentPersonas :
          \E i \in ItemsFor(p) : AddContext(k, p, i)
    \/ \E k \in ConcurrentSlots : AddContextResume(k)
    \/ \E k \in ConcurrentSlots : AddContextReturn(k)
    \/ \E p \in ConcurrentPersonas, path \in ItemPaths : RemoveContext(p, path)

\* ------------------------------------------------------------------------
\* PermissionManager
\* ------------------------------------------------------------------------

\* Bound: requestPermission is invoked at most this many times; call c creates
\* the request with id c (generateRequestId draws 64 random bits per request,
\* taken here as never repeating).
MaxRequests == 1

\* permissionRules in order; a pattern is stood for by its index.
permissionRules ==
    << [riskLevel |-> "critical", requiresApproval |-> TRUE, timeout |-> 600000],
       [riskLevel |-> "high", requiresApproval |-> TRUE, timeout |-> 300000],
       [riskLevel |-> "medium", requiresApproval |-> TRUE, timeout |-> 180000],
       [riskLevel |-> "critical", requiresApproval |-> TRUE, timeout |-> 600000],
       [riskLevel |-> "high", requiresApproval |-> TRUE, timeout |-> 300000],
       [riskLevel |-> "critical", requiresApproval |-> TRUE, timeout |-> 600000],
       [riskLevel |-> "high", requiresApproval |-> TRUE, timeout |-> 300000],
       [riskLevel |-> "high", requiresApproval |-> TRUE, timeout |-> 300000],
       [riskLevel |-> "medium", requiresApproval |-> TRUE, timeout |-> 180000],
       [riskLevel |-> "high", requiresApproval |-> TRUE, timeout |-> 300000] >>

\* A command is what the code reads of it: the rules whose pattern matches it
\* and whether it includes 'sudo' or 'root'.
GateCommands ==
    { [text |-> "npm test", matches |-> {}, elevated |-> FALSE],
      [text |-> "npm install -g typescript", matches |-> {3}, elevated |-> FALSE],
      [text |-> "rm -rf /", matches |-> {1}, elevated |-> FALSE] }

\* A context is what the code reads of it: includes 'production'/'prod', 'database'/'db'.
GateContexts ==
    { [text |-> "running tests", prod |-> FALSE, db |-> FALSE],
      [text |-> "production deployment", prod |-> TRUE, db |-> FALSE] }

getRiskScore(riskLevel) ==
    CASE riskLevel = "low" -> 10
      [] riskLevel = "medium" -> 30
      [] riskLevel = "high" -> 60
      [] riskLevel = "critical" -> 100

getTimeoutForRisk(riskLevel) ==
    CASE riskLevel = "low" -> 60000
      [] riskLevel = "medium" -> 180000
      [] riskLevel = "high" -> 300000
      [] riskLevel = "critical" -> 600000

\* The loop over permissionRules from rule i on: [score, level]
RECURSIVE RuleScan(_, _, _, _)
RuleScan(command, i, score, level) ==
    IF i > Len(permissionRules) THEN [score |-> score, level |-> level]
    ELSE IF i \in command.matches
         THEN RuleScan(command, i + 1,
                       score + getRiskScore(permissionRules[i].riskLevel),
                       IF getRiskScore(permissionRules[i].riskLevel) > getRiskScore(level)
                       THEN permissionRules[i].riskLevel ELSE level)
         ELSE RuleScan(command, i + 1, score, level)

\* an assessment whose score is the mean of the matching rules' scores
assessRiskAveraged(command, context) ==
    LET scan == RuleScan(command, 1, 0, "low")
        count == Cardinality(command.matches)
        score == (IF count = 0 THEN 0 ELSE scan.score \div count)
                    + (IF context.prod THEN 30 ELSE 0)
                    + (IF context.db THEN 20 ELSE 0)
                    + (IF command.elevated THEN 25 ELSE 0)
    IN  [score |-> score,
         level |-> IF score >= 80 THEN "critical"
                   ELSE IF score >= 50 THEN "high"
                   ELSE IF score >= 20 THEN "medium"
                   ELSE "low"]

assessRisk(command, context) ==
    LET scan == RuleScan(command, 1, 0, "low")
        level1 == IF context.prod /\ scan.level = "low" THEN "medium" ELSE scan.level
        score == scan.score + (IF context.prod THEN 30 ELSE 0)
                            + (IF context.db THEN 20 ELSE 0)
                            + (IF command.elevated THEN 25 ELSE 0)
    IN  [score |-> score,
         level |-> IF score >= 80 THEN "critical"
                   ELSE IF score >= 50 THEN "high"
                   ELSE IF score >= 20 THEN "medium"
                   ELSE level1]

requiresApproval(command, riskLevel) ==
    IF riskLevel \in {"critical", "high"} THEN TRUE
    ELSE IF command.matches # {}
         THEN permissionRules[CHOOSE i \in command.matches :
                                  \A j \in command.matches : i <= j].requiresApproval
         ELSE riskLevel = "medium"

RequestIds == 1..MaxRequests
Created == DOMAIN requests
NoResponse == [approved |-> FALSE, respondedBy |-> "nobody", reason |-> "none"]
NoCall == [pc |-> "idle", agent |-> "", sms |-> "none", push |-> "none", result |-> NoResponse,
           error |-> "none"]

\* The responses callers of respondToRequest give, and cancelRequest's reasons.
ResponseInputs ==
    { [approved |-> TRUE, respondedBy |-> "user", reason |-> "looks fine"],
      [approved |-> FALSE, respondedBy |-> "user", reason |-> "too risky"] }
CancelReasons == { "Cancelled by user" }

\* What a send through a channel can come to.
ChannelOutcomes == { "unconfigured", "sent", "failed" }

\* What the promise of waitForResponse settles to, given the recorded response.
WaitOutcome(response) ==
    IF response.approved
    THEN [pc |-> "done", result |-> response, error |-> "none"]
    ELSE [pc |-> "done", result |-> response, error |-> "PERMISSION_DENIED"]

\* requestPermission without the early return of the auto-approval
RequestPermissionAlwaysAsks(agent, command, context) ==
    /\ Len(calls) < MaxRequests
    /\ LET riskAssessment == assessRisk(command, context)
           id == Len(calls) + 1
       IN  /\ requests' = Extend(requests, id,
                   [agent |-> agent, riskLevel |-> riskAssessment.level,
                    timeout |-> getTimeoutForRisk(riskAssessment.level),
                    status |-> "pending"])
           /\ pendingRequests' = pendingRequests \cup {id}
           /\ calls' = Append(calls, [NoCall EXCEPT !.pc = "sms", !.agent = agent])
           /\ timers' = Extend(timers, id, "unarmed")
           /\ sent' = Extend(sent, id, {})
    /\ UNCHANGED << permissionHistory, gateRet, riskRet, ledgerVars, dispatchVars >>

\* requestPermission, to its first await (persistRequest) or its return.
RequestPermission(agent, command, context) ==
    /\ Len(calls) < MaxRequests
    /\ LET riskAssessment == assessRisk(command, context)
           id == Len(calls) + 1
       IN  IF ~requiresApproval(command, riskAssessment.level)
           THEN /\ calls' = Append(calls,
                        [NoCall EXCEPT !.pc = "done", !.agent = agent,
                           !.result = [approved |-> TRUE, respondedBy |-> "system",
                                       reason |-> "Auto-approved: low risk operation"]])
                /\ UNCHANGED << requests, pendingRequests, timers, sent >>
           ELSE /\ requests' = Extend(requests, id,
                        [agent |-> agent, riskLevel |-> riskAssessment.level,
                         timeout |-> getTimeoutForRisk(riskAssessment.level),
                         status |-> "pending"])
                /\ pendingRequests' = pendingRequests \cup {id}
                /\ calls' = Append(calls, [NoCall EXCEPT !.pc = "sms", !.agent = agent])
                /\ timers' = Extend(timers, id, "unarmed")
                /\ sent' = Extend(sent, id, {})
    /\ UNCHANGED << permissionHistory, gateRet, riskRet, ledgerVars, dispatchVars >>

\* sendApprovalNotifications: the SMS channel (isConfigured, then sendSMS).
NotifySms(c, outcome) ==
    /\ c \in Created /\ calls[c].pc = "sms"
    /\ IF outcome = "failed"
       THEN calls' = [calls EXCEPT ![c].pc = "done", ![c].sms = outcome,
                                   ![c].error = "TWILIO_REQUEST_FAILED"]
       ELSE calls' = [calls EXCEPT ![c].pc = "push", ![c].sms = outcome]
    /\ sent' = [sent EXCEPT ![c] = IF outcome = "sent" THEN @ \cup {"sms"} ELSE @]
    /\ UNCHANGED << requests, pendingRequests, permissionHistory, timers, gateRet,
                    riskRet, ledgerVars, dispatchVars >>

\* The push channel, then the dashboard event, setupRequestTimeout and the first
\* checkResponse of waitForResponse.
NotifyPush(c, outcome) ==
    /\ c \in Created /\ calls[c].pc = "push"
    /\ IF outcome = "failed"
       THEN /\ calls' = [calls EXCEPT ![c].pc = "done", ![c].push = outcome,
                                      ![c].error = "PUSHOVER_REQUEST_FAILED"]
            /\ sent' = sent
            /\ timers' = timers
       ELSE /\ sent' = [sent EXCEPT ![c] =
                          @ \cup {"dashboard"} \cup (IF outcome = "sent" THEN {"push"} ELSE {})]
            /\ timers' = [timers EXCEPT ![c] = "armed"]
            /\ calls' = [calls EXCEPT ![c] =
                           IF c \in DOMAIN permissionHistory
                           THEN WaitOutcome(permissionHistory[c]) @@ [@ EXCEPT !.push = outcome]
                           ELSE [@ EXCEPT !.pc = "waiting", !.push = outcome]]
    /\ UNCHANGED << requests, pendingRequests, permissionHistory, gateRet,
                    riskRet, ledgerVars, dispatchVars >>

\* checkResponse, run every second by waitForResponse, once a response is recorded.
\* (Its other branch, a pending request with status expired, needs a state no
\* operation produces: the status leaves pending only together with the delete.)
CheckResponse(c) ==
    /\ c \in Created /\ calls[c].pc = "waiting"
    /\ c \in DOMAIN permissionHistory
    /\ calls' = [calls EXCEPT ![c] = WaitOutcome(permissionHistory[c]) @@ @]
    /\ UNCHANGED << requests, pendingRequests, permissionHistory, timers, sent, gateRet,
                    riskRet, ledgerVars, dispatchVars >>

\* cancelRequest that records the reason of a timeout whatever the caller gave
cancelRequestOpAsTimeout(id, reason) ==
    /\ requests' = [requests EXCEPT ![id].status = "expired"]
    /\ pendingRequests' = pendingRequests \ {id}
    /\ permissionHistory' =
          Extend(permissionHistory, id,
                 [approved |-> FALSE, respondedBy |-> "system", reason |-> "Request timeout"])

\* The state change of cancelRequest, for a request the pending map holds.
cancelRequestOp(id, reason) ==
    /\ requests' = [requests EXCEPT ![id].status = "expired"]
    /\ pendingRequests' = pendingRequests \ {id}
    /\ permissionHistory' =
          Extend(permissionHistory, id,
                 [approved |-> FALSE, respondedBy |-> "system", reason |-> reason])

\* cancelRequest without the check that the pending map holds the id
CancelRequestUnchecked(id, reason) ==
    /\ requests' = IF id \in Created THEN [requests EXCEPT ![id].status = "expired"]
                   ELSE requests
    /\ pendingRequests' = pendingRequests \ {id}
    /\ permissionHistory' =
          Extend(permissionHistory, id,
                 [approved |-> FALSE, respondedBy |-> "system", reason |-> reason])
    /\ gateRet' = [op |-> "cancelRequest", id |-> id, error |-> "none",
                   leftPending |-> FALSE,
                   emitted |-> << "permission.cancelled" >>]
    /\ UNCHANGED << timers, calls, sent, riskRet, ledgerVars, dispatchVars >>

CancelRequest(id, reason) ==
    /\ IF id \notin pendingRequests
       THEN /\ gateRet' = [op |-> "cancelRequest", id |-> id, error |-> "REQUEST_NOT_FOUND",
                           leftPending |-> id \in Created,
                           emitted |-> << >>]
            /\ UNCHANGED << requests, pendingRequests, permissionHistory >>
       ELSE /\ cancelRequestOp(id, reason)
            /\ gateRet' = [op |-> "cancelRequest", id |-> id, error |-> "none",
                           leftPending |-> FALSE,
                           emitted |-> << "permission.cancelled" >>]
    /\ UNCHANGED << timers, calls, sent, riskRet, ledgerVars, dispatchVars >>

\* The callback setupRequestTimeout hands to setTimeout.
RequestTimeout(id) ==
    /\ id \in Created /\ timers[id] = "armed"
    /\ timers' = [timers EXCEPT ![id] = "fired"]
    /\ IF id \in pendingRequests
       THEN cancelRequestOp(id, "Request timeout")
       ELSE UNCHANGED << requests, pendingRequests, permissionHistory >>
    /\ UNCHANGED << calls, sent, gateRet, riskRet, ledgerVars, dispatchVars >>

\* The events respondToRequest emits, in order: the response event, and the
\* dashboard update that ends sendConfirmationNotification when no send threw.
respondEvents(response, confirmed) ==
    << IF response.approved THEN "permission.approved" ELSE "permission.denied" >>
       \o (IF confirmed THEN << "dashboard.notification" >> ELSE << >>)

\* respondToRequest that neither checks the status nor deletes the pending entry
respondToRequestKeepsPending(id, response, confirmed) ==
    /\ IF id \notin pendingRequests
       THEN /\ gateRet' = [op |-> "respondToRequest", id |-> id,
                           error |-> "REQUEST_NOT_FOUND", leftPending |-> id \in Created,
                           emitted |-> << >>]
            /\ UNCHANGED << requests, pendingRequests, permissionHistory >>
       ELSE /\ requests' = [requests EXCEPT ![id].status =
                               IF response.approved THEN "approved" ELSE "denied"]
            /\ permissionHistory' = Extend(permissionHistory, id, response)
            /\ pendingRequests' = pendingRequests
            /\ gateRet' = [op |-> "respondToRequest", id |-> id,
                           error |-> IF confirmed THEN "none" ELSE "CHANNEL_FAILED",
                           leftPending |-> FALSE,
                           emitted |-> respondEvents(response, confirmed)]
    /\ UNCHANGED << timers, calls, sent, riskRet, ledgerVars, dispatchVars >>

\* respondToRequest that marks the request approved whatever the decision
respondToRequestApprovesAll(id, response, confirmed) ==
    /\ IF id \notin pendingRequests
       THEN /\ gateRet' = [op |-> "respondToRequest", id |-> id,
                           error |-> "REQUEST_NOT_FOUND", leftPending |-> id \in Created,
                           emitted |-> << >>]
            /\ UNCHANGED << requests, pendingRequests, permissionHistory >>
       ELSE /\ requests' = [requests EXCEPT ![id].status = "approved"]
            /\ permissionHistory' = Extend(permissionHistory, id, response)
            /\ pendingRequests' = pendingRequests \ {id}
            /\ gateRet' = [op |-> "respondToRequest", id |-> id,
                           error |-> IF confirmed THEN "none" ELSE "CHANNEL_FAILED",
                           leftPending |-> FALSE,
                           emitted |-> respondEvents(response, confirmed)]
    /\ UNCHANGED << timers, calls, sent, riskRet, ledgerVars, dispatchVars >>

\* respondToRequest; confirmed = sendConfirmationNotification did not throw.
RespondToRequest(id, response, confirmed) ==
    /\ IF id \notin pendingRequests
       THEN /\ gateRet' = [op |-> "respondToRequest", id |-> id,
                           error |-> "REQUEST_NOT_FOUND", leftPending |-> id \in Created,
                           emitted |-> << >>]
            /\ UNCHANGED << requests, pendingRequests, permissionHistory >>
       ELSE IF requests[id].status # "pending"
       THEN /\ gateRet' = [op |-> "respondToRequest", id |-> id,
                           error |-> "REQUEST_ALREADY_RESOLVED", leftPending |-> TRUE,
                           emitted |-> << >>]
            /\ UNCHANGED << requests, pendingRequests, permissionHistory >>
       ELSE /\ requests' = [requests EXCEPT ![id].status =
                               IF response.approved THEN "approved" ELSE "denied"]
            /\ permissionHistory' = Extend(permissionHistory, id, response)
            /\ pendingRequests' = pendingRequests \ {id}
            /\ gateRet' = [op |-> "respondToRequest", id |-> id,
                           error |-> IF confirmed THEN "none" ELSE "CHANNEL_FAILED",
                           leftPending |-> FALSE,
                           emitted |-> respondEvents(response, confirmed)]
    /\ UNCHANGED << timers, calls, sent, riskRet, ledgerVars, dispatchVars >>

\* findRequestInHistory: the request as a sequence of at most one element;
\* it returns undefined for every id.
findRequestInHistory(requestId) == << >>

\* The entries getPermissionHistory collects for the ids id, id - 1, .., 1:
\* requests are created in the order of their ids, and the sort puts the
\* latest createdAt first.
RECURSIVE HistoryFrom(_)
HistoryFrom(id) ==
    IF id = 0 THEN << >>
    ELSE (IF id \in DOMAIN permissionHistory /\ findRequestInHistory(id) # << >>
          THEN << [request |-> findRequestInHistory(id)[1],
                   response |-> permissionHistory[id]] >>
          ELSE << >>) \o HistoryFrom(id - 1)

getPermissionHistory(limit) ==
    LET history == HistoryFrom(MaxRequests)
    IN  SubSeq(history, 1, IF limit < Len(history) THEN limit ELSE Len(history))

\* The limits callers pass; 100 is the default.
HistoryLimits == { 1, 2, 100 }

\* assessRisk and requiresApproval called on their own, as the unit tests call
\* them. A command is any set of rules its text matches, with or without
\* 'sudo'/'root' in it: each rule has an alternative free of both words, and
\* the alternatives of different rules can stand side by side in one text.
\* Both functions read their arguments and permissionRules only and assign
\* nothing, so one call from the initial state stands for a call in any state.
RiskCommands ==
    { [matches |-> m, elevated |-> e] : m \in SUBSET (1..Len(permissionRules)), e \in BOOLEAN }
RiskContexts == { [prod |-> p, db |-> d] : p \in BOOLEAN, d \in BOOLEAN }
RiskLevels == { "low", "medium", "high", "critical" }

NoAssessment ==
    [op |-> "none", command |-> [matches |-> {}, elevated |-> FALSE],
     context |-> [prod |-> FALSE, db |-> FALSE], given |-> "low",
     level |-> "low", score |-> 0, required |-> FALSE]

AssessRisk(command, context) ==
    /\ riskRet.op = "none"
    /\ riskRet' = [NoAssessment EXCEPT !.op = "assessRisk", !.command = command,
                     !.context = context,
                     !.level = assessRisk(command, context).level,
                     !.score = assessRisk(command, context).score]
    /\ UNCHANGED << requests, pendingRequests, permissionHistory, timers, calls, sent,
                    gateRet, ledgerVars, dispatchVars >>

RequiresApproval(command, riskLevel) ==
    /\ riskRet.op = "none"
    /\ riskRet' = [NoAssessment EXCEPT !.op = "requiresApproval", !.command = command,
                     !.given = riskLevel,
                     !.required = requiresApproval(command, riskLevel)]
    /\ UNCHANGED << requests, pendingRequests, permissionHistory, timers, calls, sent,
                    gateRet, ledgerVars, dispatchVars >>

RiskNext ==
    \/ \E cmd \in RiskCommands, ctx \in RiskContexts : AssessRisk(cmd, ctx)
    \/ \E cmd \in RiskCommands, l \in RiskLevels : RequiresApproval(cmd, l)


GateAgents == { "devops-engineer" }

GateNext ==
    \/ \E a \in GateAgents, cmd \in GateCommands, ctx \in GateContexts :
          RequestPermission(a, cmd, ctx)
    \/ \E c \in RequestIds, o \in ChannelOutcomes : NotifySms(c, o)
    \/ \E c \in RequestIds, o \in ChannelOutcomes : NotifyPush(c, o)
    \/ \E c \in RequestIds : CheckResponse(c)
    \/ \E id \in RequestIds : RequestTimeout(id)
    \/ \E id \in RequestIds, r \in ResponseInputs, ok \in BOOLEAN :
          RespondToRequest(id, r, ok)
    \/ \E id \in RequestIds, reason \in CancelReasons : CancelRequest(id, reason)

GateInit ==
    /\ requests = << >>
    /\ pendingRequests = {}
    /\ permissionHistory = << >>
    /\ timers = << >>
    /\ calls = << >>
    /\ sent = << >>
    /\ gateRet = [op |-> "none", id |-> 0, error |-> "none", leftPending |-> FALSE,
                  emitted |-> << >>]
    /\ riskRet = NoAssessment


\* ------------------------------------------------------------------------
\* AgentOrchestrator and TaskExecutor
\* ------------------------------------------------------------------------

\* Bounds: assignTask calls accepted, and calls of start, stop and
\* emergencyStop made. start() begins a drain loop each time it is called, and
\* two calls of start have a stop or an emergencyStop between them.
MaxSubmissions == 3
MaxLifecycleCalls == 3

LoopIds == 1..((MaxLifecycleCalls + 1) \div 2)
NoTask == ""

\* The tasks submitters hand to assignTask. keywords is what
\* analyzeTaskRequirements finds in title, description and criteria.
TaskInputs ==
    { [id |-> "t1", title |-> "Login form", priority |-> "medium",
       assignedAgent |-> "frontend-developer", dependencies |-> << "t3" >>,
       contextRequirement |-> 10, keywords |-> {"react-development"}],
      [id |-> "t2", title |-> "Orders API", priority |-> "medium",
       assignedAgent |-> "", dependencies |-> << >>,
       contextRequirement |-> 10, keywords |-> {"api-design", "database-architecture"}],
      [id |-> "t3", title |-> "Hotfix session bug", priority |-> "critical",
       assignedAgent |-> "frontend-developer", dependencies |-> << >>,
       contextRequirement |-> 10, keywords |-> {"react-development"}],
      [id |-> "t4", title |-> "Checkout hook", priority |-> "low",
       assignedAgent |-> "", dependencies |-> << "t2", "t3" >>,
       contextRequirement |-> 10, keywords |-> {"react-development"}],
      [id |-> "", title |-> "No id", priority |-> "high",
       assignedAgent |-> "frontend-developer", dependencies |-> << >>,
       contextRequirement |-> 10, keywords |-> {}],
      [id |-> "t5", title |-> "", priority |-> "high",
       assignedAgent |-> "frontend-developer", dependencies |-> << >>,
       contextRequirement |-> 10, keywords |-> {}],
      [id |-> "t6", title |-> "Whole repository review", priority |-> "high",
       assignedAgent |-> "frontend-developer", dependencies |-> << >>,
       contextRequirement |-> 36, keywords |-> {}],
      [id |-> "t7", title |-> "Release notes", priority |-> "medium",
       assignedAgent |-> "technical-writer", dependencies |-> << >>,
       contextRequirement |-> 10, keywords |-> {}],
      [id |-> "t8", title |-> "Regression suite", priority |-> "medium",
       assignedAgent |-> "qa-engineer", dependencies |-> << >>,
       contextRequirement |-> 10, keywords |-> {}] }

TaskIds == { t.id : t \in TaskInputs } \ {""}

\* Two sets of submissions: tasks of two priorities with one dependency next
\* to the inputs assignTask refuses, and a task with two dependencies next to
\* the tasks it depends on.
PriorityTasks == { t \in TaskInputs : t.id \notin {"t4", "t7", "t8"} }
ChainTasks == { t \in TaskInputs : t.id \in {"t2", "t3", "t4"} }
TaskOf(id) == CHOOSE t \in TaskInputs : t.id = id

priorityOrder(priority) ==
    CASE priority = "critical" -> 4
      [] priority = "high" -> 3
      [] priority = "medium" -> 2
      [] priority = "low" -> 1

getPersonaContextLimit(persona) ==
    CASE persona = "requirements-analyst" -> 30
      [] persona = "ui-ux-designer" -> 25
      [] persona = "frontend-developer" -> 35
      [] persona = "backend-architect" -> 35
      [] persona = "qa-engineer" -> 30
      [] persona = "security-analyst" -> 25
      [] persona = "technical-writer" -> 20
      [] persona = "devops-engineer" -> 30

\* What each persona class returns from getSpecializations().
Specializations(persona) ==
    CASE persona = "requirements-analyst" ->
            {"stakeholder-analysis", "user-story-creation", "acceptance-criteria",
             "requirements-validation"}
      [] persona = "ui-ux-designer" ->
            {"user-experience-design", "interface-design", "design-systems",
             "accessibility", "figma-integration"}
      [] persona = "frontend-developer" ->
            {"react-development", "typescript", "responsive-design",
             "state-management", "component-architecture"}
      [] persona = "backend-architect" ->
            {"api-design", "database-architecture", "microservices", "scalability",
             "performance-optimization"}
      [] persona = "qa-engineer" ->
            {"test-automation", "quality-assurance", "performance-testing",
             "security-testing", "ci-cd-integration"}
      [] persona = "security-analyst" ->
            {"security-auditing", "vulnerability-assessment", "compliance",
             "secure-coding", "penetration-testing"}
      [] persona = "technical-writer" ->
            {"documentation", "api-documentation", "user-guides",
             "technical-specifications", "knowledge-management"}
      [] persona = "devops-engineer" ->
            {"ci-cd-pipelines", "infrastructure-as-code", "containerization",
             "monitoring", "deployment-automation"}

\* The score selectOptimalAgent gives one agent. contextUsage is kept in usage
\* units, so contextUsage < contextLimit * 0.8 reads units * 1000 < limit * 8 * capacity.
AgentScore(persona, keywords) ==
    10 * Cardinality(Specializations(persona) \cap keywords)
    + (IF agents[persona].contextUsage * 1000
            < getPersonaContextLimit(persona) * 8 * getContextCapacity(persona)
       THEN 5 ELSE 0)
    + (IF agents[persona].status = "idle" THEN 8
       ELSE IF agents[persona].status = "working" THEN 0 - 5 ELSE 0)

\* a selection that takes the last of the agents of the highest score
selectOptimalAgentLast(task) ==
    LET best == CHOOSE i \in 1..Len(PersonaList) :
                  \A j \in 1..Len(PersonaList) :
                      /\ AgentScore(PersonaList[j], task.keywords)
                            <= AgentScore(PersonaList[i], task.keywords)
                      /\ j > i => AgentScore(PersonaList[j], task.keywords)
                                    < AgentScore(PersonaList[i], task.keywords)
    IN  PersonaList[best]

\* agentScores.sort((a, b) => b.score - a.score)[0]: the first of the roster
\* among the agents of the highest score.
selectOptimalAgent(task) ==
    LET best == CHOOSE i \in 1..Len(PersonaList) :
                  /\ \A j \in 1..Len(PersonaList) :
                        AgentScore(PersonaList[j], task.keywords)
                            <= AgentScore(PersonaList[i], task.keywords)
                  /\ \A j \in 1..(i - 1) :
                        AgentScore(PersonaList[j], task.keywords)
                            < AgentScore(PersonaList[i], task.keywords)
    IN  PersonaList[best]

\* a context check that lets every requirement through
exceedsAgentLimitNever(task, persona) == FALSE

\* task.contextRequirement > agent.contextLimit
exceedsAgentLimit(task, persona) ==
    task.contextRequirement > getPersonaContextLimit(persona)

AssignTaskCall(task) ==
    /\ IF task.id = "" \/ task.title = ""
       THEN /\ orchRet' = [op |-> "assignTask", task |-> task.id,
                           error |-> "INVALID_TASK", emitted |-> "none"]
            /\ UNCHANGED << taskQueue, taskAgent, submitOrder >>
       ELSE LET persona == IF taskAgent[task.id] = "" THEN
                              IF task.assignedAgent = "" THEN selectOptimalAgent(task)
                              ELSE task.assignedAgent
                           ELSE taskAgent[task.id]
            IN  /\ taskAgent' = [taskAgent EXCEPT ![task.id] = persona]
                /\ IF exceedsAgentLimit(task, persona)
                   THEN /\ orchRet' = [op |-> "assignTask", task |-> task.id,
                                       error |-> "CONTEXT_LIMIT_EXCEEDED",
                                       emitted |-> "none"]
                        /\ UNCHANGED << taskQueue, submitOrder >>
                   ELSE /\ taskQueue' = Append(taskQueue, task.id)
                        /\ submitOrder' = Append(submitOrder, task.id)
                        /\ orchRet' = [op |-> "assignTask", task |-> task.id,
                                       error |-> "none",
                                       emitted |-> "task.assigned"]
    /\ UNCHANGED << agents, activeAgents, isRunning, taskStatus, loops, stopCall,
                    executingTasks, completedTasks, lifecycleCalls, ledgerVars, gateVars >>

\* assignTask, for as long as submissions are made.
AssignTask(task) ==
    /\ Len(submitOrder) < MaxSubmissions
    /\ AssignTaskCall(task)

OfPriority(queue, priority) == SelectSeq(queue, LAMBDA id : TaskOf(id).priority = priority)

\* taskQueue.sort by priorityOrder, descending; Array.prototype.sort is stable.
SortedQueue(queue) ==
    OfPriority(queue, "critical") \o OfPriority(queue, "high")
        \o OfPriority(queue, "medium") \o OfPriority(queue, "low")

RemoveFirst(seq, x) ==
    IF \E i \in 1..Len(seq) : seq[i] = x
    THEN RemoveAt(seq, CHOOSE i \in 1..Len(seq) :
                          seq[i] = x /\ \A j \in 1..(i - 1) : seq[j] # x)
    ELSE seq

\* Set.add
AddActive(active, persona) ==
    IF \E i \in 1..Len(active) : active[i] = persona THEN active
    ELSE Append(active, persona)

\* resolveDependencies that only asks whether a result is stored
resolveDependenciesAnyResult(task) ==
    \A i \in 1..Len(task.dependencies) : completedTasks[task.dependencies[i]] # "none"

\* resolveDependencies returns (TRUE) or throws (FALSE).
resolveDependencies(task) ==
    \A i \in 1..Len(task.dependencies) : completedTasks[task.dependencies[i]] = "success"

NoError == [message |-> "none", dependency |-> NoTask]

\* The TaskExecutionError execute throws before its try block, NoError if none:
\* the has-check, then resolveDependencies going through the dependencies in
\* order and throwing at the first without a successful result.
executeRejection(task) ==
    IF task.id \in executingTasks
    THEN [message |-> "Task is already executing", dependency |-> NoTask]
    ELSE IF resolveDependencies(task) THEN NoError
    ELSE LET first == CHOOSE i \in 1..Len(task.dependencies) :
                         /\ completedTasks[task.dependencies[i]] # "success"
                         /\ \A j \in 1..(i - 1) :
                               completedTasks[task.dependencies[j]] = "success"
             dep == task.dependencies[first]
         IN  [message |-> IF completedTasks[dep] = "none"
                          THEN "Dependency not completed" ELSE "Dependency failed",
              dependency |-> dep]

\* stopAgent to its await of the persisted state's removal: the agent is idle,
\* off the active set, and ContextManager.cleanup has cleared its window.
StopAgentSync(persona, agentsNow, activeNow) ==
    /\ agents' = [agentsNow EXCEPT ![persona].status = "idle",
                                   ![persona].currentTask = NoTask]
    /\ activeAgents' = RemoveFirst(activeNow, persona)
    /\ SetLedger(cleanupOp(Ledger, persona))

\* a requeue that loses the task
RequeueDropped(l, id, rest) ==
    /\ taskQueue' = rest
    /\ loops' = [loops EXCEPT ![l] =
                   [pc |-> "pause", task |-> id, error |-> NoError, emitted |-> << >>]]
    /\ UNCHANGED << agents, activeAgents, taskStatus, executingTasks, ledgerVars >>

\* executeTask finds the agent not idle: the task goes to the end of the queue
\* and executeTask returns, so the loop starts its pause. The loop's record
\* names the task it has put back until the pause is over.
Requeue(l, id, rest) ==
    /\ taskQueue' = Append(rest, id)
    /\ loops' = [loops EXCEPT ![l] =
                   [pc |-> "pause", task |-> id, error |-> NoError, emitted |-> << >>]]
    /\ UNCHANGED << agents, activeAgents, taskStatus, executingTasks, ledgerVars >>

\* executeTask for the task just shifted off the queue, to its first macrotask
\* await: the requeue, or startAgent and TaskExecutor.execute up to the worker
\* logic, or the failure of execute before its try block.
ExecuteTask(l, id, rest) ==
    LET persona == taskAgent[id]
        started == [agents EXCEPT ![persona] =
                       [status |-> "working", currentTask |-> id,
                        contextUsage |-> contextWindows[persona].currentUsage]]
    IN  IF agents[persona].status # "idle"
        THEN Requeue(l, id, rest)
        ELSE IF executeRejection(TaskOf(id)) # NoError
        THEN /\ taskQueue' = rest
             /\ taskStatus' = [taskStatus EXCEPT ![id] = "failed"]
             /\ StopAgentSync(persona, started, AddActive(activeAgents, persona))
             /\ loops' = [loops EXCEPT ![l] =
                            [pc |-> "stopping", task |-> id,
                             error |-> executeRejection(TaskOf(id)),
                             emitted |-> << >>]]
             /\ UNCHANGED ledgerCallVars
             /\ UNCHANGED executingTasks
        ELSE /\ taskQueue' = rest
             /\ agents' = started
             /\ activeAgents' = AddActive(activeAgents, persona)
             /\ agentUsage' = [agentUsage EXCEPT ![persona] =
                                  contextWindows[persona].currentUsage]
             /\ executingTasks' = executingTasks \cup {id}
             /\ taskStatus' = [taskStatus EXCEPT ![id] = "in-progress"]
             /\ loops' = [loops EXCEPT ![l] =
                            [pc |-> "running", task |-> id, error |-> NoError,
                             emitted |-> << >>]]
             /\ UNCHANGED << contextWindows, totalUsage, ledgerCallVars >>

\* The while loop of processTaskQueue from its condition on, with the queue as it is
\* then, up to the first macrotask await.
WhileHead(l, queue, running) ==
    IF queue # << >> /\ running
    THEN ExecuteTask(l, Head(queue), Tail(queue))
    ELSE /\ taskQueue' = queue
         /\ loops' = [loops EXCEPT ![l] =
                        [pc |-> IF running THEN "sleep" ELSE "off", task |-> NoTask,
                         error |-> NoError, emitted |-> << >>]]
         /\ UNCHANGED << agents, activeAgents, taskStatus, executingTasks, ledgerVars >>

\* start(), with the synchronous head of the processTaskQueue call it makes.
StartCall ==
    /\ lifecycleCalls' = lifecycleCalls + 1
    /\ ~isRunning
    /\ \E l \in DOMAIN loops :
          /\ loops[l].pc = "off"
          /\ \A k \in DOMAIN loops : loops[k].pc = "off" => l <= k
          /\ isRunning' = TRUE
          /\ WhileHead(l, SortedQueue(taskQueue), TRUE)
    /\ UNCHANGED << taskAgent, stopCall, completedTasks, submitOrder, orchRet, gateVars >>

\* start(), for as long as lifecycle calls are made.
Start ==
    /\ lifecycleCalls < MaxLifecycleCalls
    /\ StartCall

\* The worker logic (executeByPersona, then collectArtifacts) ends: execute
\* stores the result, executeTask sets the status and enters stopAgent.
WorkerDone(l, success) ==
    /\ loops[l].pc = "running"
    /\ LET id == loops[l].task
       IN  /\ taskStatus' = [taskStatus EXCEPT ![id] =
                               IF success THEN "completed" ELSE "failed"]
           /\ completedTasks' = [completedTasks EXCEPT ![id] =
                                   IF success THEN "success" ELSE "failure"]
           /\ executingTasks' = executingTasks \ {id}
           /\ StopAgentSync(taskAgent[id], agents, activeAgents)
           /\ loops' = [loops EXCEPT ![l].pc = "stopping",
                                     ![l].error =
                                        IF success THEN NoError
                                        ELSE [message |-> "worker failed",
                                              dependency |-> NoTask],
                                     ![l].emitted =
                                        IF success THEN << "task.completed" >>
                                        ELSE << >>]
    /\ UNCHANGED ledgerCallVars
    /\ UNCHANGED << taskQueue, isRunning, taskAgent, stopCall, lifecycleCalls,
                    submitOrder, orchRet, gateVars >>

\* stopAgent resumes after the cleanup: contextUsage is zeroed, executeTask
\* settles (processTaskQueue catches its error and emits task.failed) and the
\* loop starts its 100 ms pause; emitted holds the task events of the
\* execution that has just ended until the pause is over.
StopAgentDone(l) ==
    /\ loops[l].pc = "stopping"
    /\ agents' = [agents EXCEPT ![taskAgent[loops[l].task]].contextUsage = 0]
    /\ loops' = [loops EXCEPT ![l] =
                   [pc |-> "pause", task |-> NoTask, error |-> NoError,
                    emitted |-> IF loops[l].error = NoError THEN loops[l].emitted
                                ELSE Append(loops[l].emitted, "task.failed")]]
    /\ UNCHANGED << activeAgents, taskQueue, isRunning, taskStatus, taskAgent, stopCall,
                    executingTasks, completedTasks, lifecycleCalls, submitOrder, orchRet,
                    ledgerVars, gateVars >>

\* The pause ends: back to the while condition.
PauseDone(l) ==
    /\ loops[l].pc = "pause"
    /\ WhileHead(l, taskQueue, isRunning)
    /\ UNCHANGED << isRunning, taskAgent, stopCall, completedTasks, lifecycleCalls, submitOrder,
                    orchRet, gateVars >>

\* The 5 s timer fires: processTaskQueue again.
ProcessTaskQueue(l) ==
    /\ loops[l].pc = "sleep"
    /\ IF isRunning
       THEN WhileHead(l, SortedQueue(taskQueue), TRUE)
       ELSE /\ loops' = [loops EXCEPT ![l].pc = "off"]
            /\ UNCHANGED << agents, activeAgents, taskQueue, taskStatus, executingTasks,
                            ledgerVars >>
    /\ UNCHANGED << isRunning, taskAgent, stopCall, completedTasks, lifecycleCalls, submitOrder,
                    orchRet, gateVars >>

\* stop(): isRunning goes false and the loop over activeAgents enters the
\* stopAgent of its first member (one stop() in flight at a time).
StopCall ==
    /\ lifecycleCalls' = lifecycleCalls + 1
    /\ isRunning
    /\ stopCall.pc = "idle"
    /\ isRunning' = FALSE
    /\ IF activeAgents = << >>
       THEN UNCHANGED << agents, activeAgents, stopCall, ledgerVars >>
       ELSE /\ StopAgentSync(Head(activeAgents), agents, activeAgents)
            /\ stopCall' = [pc |-> "stopping", persona |-> Head(activeAgents)]
            /\ UNCHANGED ledgerCallVars
    /\ UNCHANGED << taskQueue, taskStatus, taskAgent, loops, executingTasks,
                    completedTasks, submitOrder, orchRet, gateVars >>

\* stop(), for as long as lifecycle calls are made.
Stop ==
    /\ lifecycleCalls < MaxLifecycleCalls
    /\ StopCall

\* stop() resumes after one stopAgent and goes on to the next member of the Set.
StopNext ==
    /\ stopCall.pc = "stopping"
    /\ LET zeroed == [agents EXCEPT ![stopCall.persona].contextUsage = 0]
       IN  IF activeAgents = << >>
           THEN /\ agents' = zeroed
                /\ stopCall' = [pc |-> "idle", persona |-> ""]
                /\ UNCHANGED << activeAgents, ledgerVars >>
           ELSE /\ StopAgentSync(Head(activeAgents), zeroed, activeAgents)
                /\ stopCall' = [pc |-> "stopping", persona |-> Head(activeAgents)]
                /\ UNCHANGED ledgerCallVars
    /\ UNCHANGED << taskQueue, isRunning, taskStatus, taskAgent, loops, executingTasks,
                    completedTasks, lifecycleCalls, submitOrder, orchRet, gateVars >>

\* emergencyStop that also puts the agents it finds in error back to idle
EmergencyStopRecovers ==
    /\ lifecycleCalls < MaxLifecycleCalls
    /\ lifecycleCalls' = lifecycleCalls + 1
    /\ isRunning' = FALSE
    /\ taskQueue' = << >>
    /\ agents' = [p \in Personas |->
                    IF \E i \in 1..Len(activeAgents) : activeAgents[i] = p
                    THEN [agents[p] EXCEPT !.status = "error", !.currentTask = NoTask]
                    ELSE IF agents[p].status = "error"
                    THEN [agents[p] EXCEPT !.status = "idle"]
                    ELSE agents[p]]
    /\ activeAgents' = << >>
    /\ emergencyCall.pc = "idle"
    /\ EmergencyStep(1, { activeAgents[i] : i \in 1..Len(activeAgents) })
    /\ UNCHANGED addCalls
    /\ UNCHANGED << taskStatus, taskAgent, loops, stopCall, executingTasks,
                    completedTasks, submitOrder, orchRet, gateVars >>

\* emergencyStop(), to the first await of the emergencyCleanup it calls; it
\* returns when that emergencyCleanup has ended.
EmergencyStop ==
    /\ lifecycleCalls < MaxLifecycleCalls
    /\ lifecycleCalls' = lifecycleCalls + 1
    /\ isRunning' = FALSE
    /\ taskQueue' = << >>
    /\ agents' = [p \in Personas |->
                    IF \E i \in 1..Len(activeAgents) : activeAgents[i] = p
                    THEN [agents[p] EXCEPT !.status = "error", !.currentTask = NoTask]
                    ELSE agents[p]]
    /\ activeAgents' = << >>
    /\ emergencyCall.pc = "idle"
    /\ EmergencyStep(1, { activeAgents[i] : i \in 1..Len(activeAgents) })
    /\ UNCHANGED addCalls
    /\ UNCHANGED << taskStatus, taskAgent, loops, stopCall, executingTasks,
                    completedTasks, submitOrder, orchRet, gateVars >>

DrainNext ==
    \/ Start
    \/ \E l \in LoopIds, ok \in BOOLEAN : WorkerDone(l, ok)
    \/ \E l \in LoopIds : StopAgentDone(l)
    \/ \E l \in LoopIds : PauseDone(l)
    \/ \E l \in LoopIds : ProcessTaskQueue(l)
    \/ Stop
    \/ StopNext
    \/ EmergencyStop

DispatchNext == (\E t \in PriorityTasks : AssignTask(t)) \/ DrainNext

DependencyNext == (\E t \in ChainTasks : AssignTask(t)) \/ DrainNext

\* Two tasks of one agent, the second depending on the first.
RequeueTasks == { t \in TaskInputs : t.id \in {"t1", "t3"} }

RequeueNext == (\E t \in RequeueTasks : AssignTask(t)) \/ DrainNext

\* The orchestrator next to callers of the ContextManager: one task, a window
\* that items are added to while tasks run, and emergencyStop as the only way
\* the orchestrator is stopped.
EmergencyTasks == { t \in TaskInputs : t.id = "t3" }
EmergencyPersonas == { "security-analyst" }

EmergencyNext ==
    \/ \E t \in EmergencyTasks : AssignTask(t)
    \/ Start
    \/ \E l \in LoopIds, ok \in BOOLEAN : WorkerDone(l, ok)
    \/ \E l \in LoopIds : StopAgentDone(l)
    \/ \E l \in LoopIds : PauseDone(l)
    \/ \E l \in LoopIds : ProcessTaskQueue(l)
    \/ EmergencyStop
    \/ \E k \in AddSlots, p \in EmergencyPersonas : \E i \in ItemsFor(p) : AddContext(k, p, i)
    \/ \E k \in AddSlots : AddContextResume(k)
    \/ \E k \in AddSlots : AddContextReturn(k)
    \/ EmergencyCleanupResume

\* The orchestrator stopped and started again while tasks are in flight: four
\* tasks without dependencies, and as many stop() and start() calls as it
\* takes to have four drain loops alive at once.
maxConcurrentTasks == 3
RestartCalls == 2 * maxConcurrentTasks + 1
RestartLoops == 1..(maxConcurrentTasks + 1)
RestartTasks == << "t3", "t2", "t7", "t8" >>

\* The next of the four tasks is submitted.
RestartAssign ==
    /\ Len(submitOrder) < Len(RestartTasks)
    /\ AssignTaskCall(TaskOf(RestartTasks[Len(submitOrder) + 1]))

RestartStart ==
    /\ lifecycleCalls < RestartCalls
    /\ StartCall

RestartStop ==
    /\ lifecycleCalls < RestartCalls
    /\ StopCall

RestartNext ==
    \/ RestartAssign
    \/ RestartStart
    \/ \E l \in RestartLoops, ok \in BOOLEAN : WorkerDone(l, ok)
    \/ \E l \in RestartLoops : StopAgentDone(l)
    \/ \E l \in RestartLoops : PauseDone(l)
    \/ \E l \in RestartLoops : ProcessTaskQueue(l)
    \/ RestartStop
    \/ StopNext

RestartInit ==
    /\ LedgerInit
    /\ GateInit
    /\ agents = [p \in Personas |->
                   [status |-> "idle", currentTask |-> NoTask, contextUsage |-> 0]]
    /\ activeAgents = << >>
    /\ taskQueue = << >>
    /\ isRunning = FALSE
    /\ taskStatus = [t \in TaskIds |-> "pending"]
    /\ taskAgent = [t \in TaskIds |-> TaskOf(t).assignedAgent]
    /\ loops = [l \in RestartLoops |->
                  [pc |-> "off", task |-> NoTask, error |-> NoError, emitted |-> << >>]]
    /\ stopCall = [pc |-> "idle", persona |-> ""]
    /\ executingTasks = {}
    /\ completedTasks = [t \in TaskIds |-> "none"]
    /\ lifecycleCalls = 0
    /\ submitOrder = << >>
    /\ orchRet = [op |-> "none", task |-> NoTask, error |-> "none", emitted |-> "none"]

\* Everything of the orchestrator and the executor but the agents.
DispatchInitRest ==
    /\ activeAgents = << >>
    /\ taskQueue = << >>
    /\ isRunning = FALSE
    /\ taskStatus = [t \in TaskIds |-> "pending"]
    /\ taskAgent = [t \in TaskIds |-> TaskOf(t).assignedAgent]
    /\ loops = [l \in LoopIds |->
                  [pc |-> "off", task |-> NoTask, error |-> NoError, emitted |-> << >>]]
    /\ stopCall = [pc |-> "idle", persona |-> ""]
    /\ executingTasks = {}
    /\ completedTasks = [t \in TaskIds |-> "none"]
    /\ lifecycleCalls = 0
    /\ submitOrder = << >>
    /\ orchRet = [op |-> "none", task |-> NoTask, error |-> "none", emitted |-> "none"]

DispatchInit ==
    /\ agents = [p \in Personas |->
                   [status |-> "idle", currentTask |-> NoTask, contextUsage |-> 0]]
    /\ DispatchInitRest

\* Selection on its own: selectOptimalAgent is a function of the task's keywords
\* and of the agents' status and contextUsage. The states of an agent it can
\* meet: idle, working or in error, with the contextUsage startAgent read from
\* an empty window or from one filled to 30% of its capacity.
SelectionPersonas == { "requirements-analyst", "frontend-developer", "backend-architect" }

SelectionInit ==
    /\ LedgerInit
    /\ GateInit
    /\ \E st \in [SelectionPersonas -> {"idle", "working", "error"}] :
       \E filled \in [SelectionPersonas -> BOOLEAN] :
          agents = [p \in Personas |->
                      IF p \in SelectionPersonas
                      THEN [status |-> st[p],
                            currentTask |-> IF st[p] = "working" THEN "t3" ELSE NoTask,
                            contextUsage |-> IF filled[p]
                                             THEN (3 * getContextCapacity(p)) \div 10
                                             ELSE 0]
                      ELSE [status |-> "idle", currentTask |-> NoTask,
                            contextUsage |-> 0]]
    /\ DispatchInitRest

SelectionNext == \E t \in { x \in TaskInputs : x.assignedAgent = "" } : AssignTask(t)

\* ------------------------------------------------------------------------
\* Specifications
\* ------------------------------------------------------------------------

Init == LedgerInit /\ GateInit /\ DispatchInit

SoleCallerInit ==
    /\ contextWindows = [p \in Personas |-> [items |-> << >>, currentUsage |-> 0]]
    /\ agentUsage = [p \in Personas |-> 0]
    /\ totalUsage = 0
    /\ addCalls = [k \in SoleCaller |-> NoAdd]
    /\ emergencyCall = NoEmergency
    /\ GateInit
    /\ DispatchInit

ConcurrentInit ==
    /\ contextWindows = [p \in Personas |-> [items |-> << >>, currentUsage |-> 0]]
    /\ agentUsage = [p \in Personas |-> 0]
    /\ totalUsage = 0
    /\ addCalls = [k \in ConcurrentSlots |-> NoAdd]
    /\ emergencyCall = NoEmergency
    /\ GateInit
    /\ DispatchInit

Next ==
    LedgerNext \/ GateNext \/ RiskNext \/ DispatchNext \/ DependencyNext \/ EmergencyNext

Spec == Init /\ [][Next]_vars

LedgerSpec == Init /\ [][LedgerNext]_vars

GateSpec == Init /\ [][GateNext]_vars

RiskSpec == Init /\ [][RiskNext]_vars

DispatchSpec == Init /\ [][DispatchNext]_vars

DependencySpec == Init /\ [][DependencyNext]_vars

EmergencySpec == Init /\ [][EmergencyNext]_vars

\* The drain loops with what the event loop guarantees: a timer that is set
\* fires, the removal of a persisted state and the worker logic of a task end.
DrainFairness ==
    /\ \A l \in LoopIds :
          /\ WF_vars(\E ok \in BOOLEAN : WorkerDone(l, ok))
          /\ WF_vars(StopAgentDone(l))
          /\ WF_vars(PauseDone(l))
          /\ WF_vars(ProcessTaskQueue(l))
    /\ WF_vars(StopNext)

RequeueSpec == Init /\ [][RequeueNext]_vars /\ DrainFairness

SelectionSpec == SelectionInit /\ [][SelectionNext]_vars

RestartSpec == RestartInit /\ [][RestartNext]_vars

SoleCallerSpec == SoleCallerInit /\ [][SoleCallerNext]_vars

ConcurrentSpec == ConcurrentInit /\ [][ConcurrentNext]_vars

\* ------------------------------------------------------------------------
\* Properties
\* ------------------------------------------------------------------------

\* C1 (budget invariant). An addContext call that has pushed its item and is
\* about to return successfully finds its persona's window within the limit:
\* currentUsage / capacity * 100 <= maxPercentage, whatever other calls ran
\* while it awaited.
C1_BudgetAfterAdd ==
    \A k \in AddSlots :
        addCalls[k].pc = "persisting" =>
            ~PercentAbove(contextWindows[addCalls[k].persona].currentUsage,
                          addCalls[k].persona, maxPercentage)

\* an addContext that evicted items, passed the second check and is returning
C1_AddedAfterEviction ==
    \E k \in AddSlots :
        /\ addCalls[k].pc = "persisting"
        /\ addCalls[k].evicted
        /\ contextWindows[addCalls[k].persona].currentUsage > 0

\* C2 (late response). As the specification states it: a respondToRequest for
\* a request that has left pending fails with REQUEST_ALREADY_RESOLVED. The
\* code deletes the request from pendingRequests when it leaves pending, so the
\* late call fails with REQUEST_NOT_FOUND instead.
C2_LateResponseAlreadyResolved ==
    (gateRet.op = "respondToRequest" /\ gateRet.leftPending)
        => gateRet.error = "REQUEST_ALREADY_RESOLVED"

\* C3 (one-way status). In every step a request's status changes only from
\* pending, and only to approved, denied or expired, and a response recorded
\* in permissionHistory stays as it is: no later respondToRequest,
\* cancelRequest or timer firing overwrites it.
C3_StatusOneWay ==
    [][\A id \in DOMAIN requests :
          /\ requests'[id].status # requests[id].status
                => /\ requests[id].status = "pending"
                   /\ requests'[id].status \in {"approved", "denied", "expired"}
          /\ id \in DOMAIN permissionHistory
                => /\ id \in DOMAIN permissionHistory'
                   /\ permissionHistory'[id] = permissionHistory[id]]_vars

\* a user's response is recorded and the request's timer has fired after it
C3_ResponseThenTimerFired ==
    \E id \in DOMAIN permissionHistory :
        /\ permissionHistory[id].respondedBy = "user"
        /\ requests[id].status \in {"approved", "denied"}
        /\ timers[id] = "fired"

\* No respondToRequest or cancelRequest has answered the request.
Unanswered(id) ==
    id \notin DOMAIN permissionHistory \/ permissionHistory[id].reason = "Request timeout"

\* C4 (timeout firing). As the specification states it: a requestPermission
\* call whose request nobody answered ends in a denial with the reason
\* "Request timeout", its request expired and off the pending set. The call
\* ends otherwise when a notification channel throws (C7): the timer is then
\* never armed.
C4_UnansweredEndsInTimeout ==
    \A c \in Created :
        (calls[c].pc = "done" /\ Unanswered(c))
            => /\ c \notin pendingRequests
               /\ requests[c].status = "expired"
               /\ calls[c].error = "PERMISSION_DENIED"
               /\ calls[c].result.reason = "Request timeout"

\* C7 (channel independence). As the specification states it: once the
\* notifications of a request are over, a channel that failed has not kept the
\* dashboard from being notified nor the timer from being armed, and its error
\* is not the outcome of requestPermission.
C7_ChannelFailureContained ==
    \A c \in Created :
        (calls[c].pc \notin {"sms", "push"}
            /\ (calls[c].sms = "failed" \/ calls[c].push = "failed"))
            => /\ "dashboard" \in sent[c]
               /\ timers[c] # "unarmed"
               /\ calls[c].error \notin {"TWILIO_REQUEST_FAILED", "PUSHOVER_REQUEST_FAILED"}

\* The step starts the worker logic of task t (execute marks it executing and
\* enters executeByPersona in one go).
Dispatched(t) == t \in executingTasks' /\ t \notin executingTasks

\* Task q could be dispatched: its agent is idle, its dependencies are
\* resolved and it is not executing.
Eligible(q) ==
    /\ agents[taskAgent[q]].status = "idle"
    /\ resolveDependencies(TaskOf(q))
    /\ q \notin executingTasks

\* The approval gate has been asked on behalf of the task's agent and approved.
GateApproved(t) ==
    \E c \in DOMAIN calls :
        /\ calls[c].agent = taskAgent[t]
        /\ calls[c].pc = "done"
        /\ calls[c].error = "none"
        /\ calls[c].result.approved

\* C5 (risk gate before execution). As the specification states it: worker
\* logic runs only for a task the approval gate approved. Neither executeTask
\* nor execute calls the PermissionManager.
C5_GateBeforeWorker ==
    \A l \in LoopIds : loops[l].pc = "running" => GateApproved(loops[l].task)

\* C6 (no task executes twice). As the specification states it: the worker
\* logic of a task id never starts when an execution of that id has already
\* stored its result. assignTask queues a submitted id again, and execute only
\* refuses an id that is executing at that moment.
C6_StartedAtMostOnce ==
    [][\A t \in TaskIds : Dispatched(t) => completedTasks[t] = "none"]_vars

\* C8 (priority ordering). As the specification states it: a task is not
\* dispatched while a queued task of higher priority is eligible. The queue is
\* sorted when processTaskQueue is entered, not when assignTask pushes.
C8_HigherPriorityFirst ==
    [][\A t \in TaskIds :
          Dispatched(t) =>
              \A i \in 1..Len(taskQueue') :
                  ~(/\ priorityOrder(TaskOf(taskQueue'[i]).priority)
                          > priorityOrder(TaskOf(t).priority)
                    /\ Eligible(taskQueue'[i]))]_vars

SubmittedOnce(t) == Len(SelectSeq(submitOrder, LAMBDA x : x = t)) = 1
SubmittedAt(t) == CHOOSE i \in 1..Len(submitOrder) : submitOrder[i] = t

\* C9 (FIFO within a priority). As the specification states it: a task is not
\* dispatched while a queued task of the same priority, submitted before it,
\* is eligible. executeTask pushes a task whose agent is busy to the back of
\* the queue.
C9_FifoWithinPriority ==
    [][\A t \in TaskIds :
          (Dispatched(t) /\ SubmittedOnce(t)) =>
              \A i \in 1..Len(taskQueue') :
                  LET q == taskQueue'[i]
                  IN  ~(/\ q # t
                        /\ TaskOf(q).priority = TaskOf(t).priority
                        /\ SubmittedOnce(q)
                        /\ SubmittedAt(q) < SubmittedAt(t)
                        /\ Eligible(q))]_vars

\* C10 (dependency happens-before). A step that starts the worker logic of a
\* task, or makes the task in-progress, finds a successful result stored in
\* completedTasks for every dependency of the task.
C10_DependenciesFirst ==
    [][\A t \in TaskIds :
          (Dispatched(t) \/ (taskStatus'[t] = "in-progress" /\ taskStatus[t] # "in-progress"))
              => \A i \in 1..Len(TaskOf(t).dependencies) :
                    completedTasks[TaskOf(t).dependencies[i]] = "success"]_vars

\* a task with a dependency is executing, after the dependency succeeded
C10_DependentRunning ==
    \E t \in executingTasks :
        /\ Len(TaskOf(t).dependencies) > 0
        /\ \A i \in 1..Len(TaskOf(t).dependencies) :
              completedTasks[TaskOf(t).dependencies[i]] = "success"

\* Some dependency of the task has not finished: its status is neither
\* completed nor failed.
HasUnfinishedDependency(task) ==
    \E i \in 1..Len(task.dependencies) :
        taskStatus[task.dependencies[i]] \notin {"completed", "failed"}

\* C11 (deferral on unfinished dependencies). As the specification states it:
\* no step fails a task that has an unfinished dependency; the task stays as it
\* is until its dependencies are completed. resolveDependencies throws
\* "Dependency not completed" for such a task and executeTask sets it failed.
C11_UnfinishedDependencyDefers ==
    [][\A t \in TaskIds :
          (HasUnfinishedDependency(TaskOf(t)) /\ taskStatus[t] # "failed")
              => taskStatus'[t] # "failed"]_vars

\* The dependencies of the task whose status is failed.
FailedDependencies(task) ==
    { task.dependencies[i] : i \in 1..Len(task.dependencies) }
        \cap { d \in TaskIds : taskStatus[d] = "failed" }

\* The step has drain loop l take task t off the queue and past executeTask's
\* idle check.
Taken(l, t) ==
    /\ loops[l].pc \notin {"running", "stopping"}
    /\ loops'[l].pc \in {"running", "stopping"}
    /\ loops'[l].task = t

\* C12 (dependency failure propagation). As the specification states it: a
\* task that executeTask takes up while one of its dependencies has status
\* failed ends failed, its worker logic does not start, and the error names a
\* failed dependency. resolveDependencies goes through the dependencies in
\* order and throws at the first without a successful result, so the error of
\* a task whose earlier dependency has not run names that one.
C12_FailedDependencyNamed ==
    [][\A l \in LoopIds : \A t \in TaskIds :
          (Taken(l, t) /\ FailedDependencies(TaskOf(t)) # {})
              => /\ taskStatus'[t] = "failed"
                 /\ t \notin executingTasks'
                 /\ loops'[l].error.dependency \in FailedDependencies(TaskOf(t))]_vars

\* The step is an assignTask that picks the agent of task t with
\* selectOptimalAgent (the task came without an assigned agent).
Selected(t) == taskAgent[t] = "" /\ taskAgent'[t] # ""

\* C13 (errored workers excluded). As the specification states it: the agent
\* selectOptimalAgent picks is never one whose status is error.
\* selectOptimalAgent scores every agent of the roster; status error only means
\* that neither the idle bonus nor the working penalty applies.
C13_ErroredNotSelected ==
    [][\A t \in TaskIds :
          Selected(t) => agents[taskAgent'[t]].status # "error"]_vars

\* C14 (submission validation). An assignTask on a task with an empty id or an
\* empty title throws INVALID_TASK; one on a task whose contextRequirement is
\* above the contextLimit of its agent throws CONTEXT_LIMIT_EXCEEDED; in both
\* cases the queue is as before and task.assigned is not emitted.
C14_RejectedSubmission ==
    [][(orchRet' # orchRet /\ orchRet'.op = "assignTask") =>
          LET task == TaskOf(orchRet'.task)
              missing == task.id = "" \/ task.title = ""
          IN  /\ missing => orchRet'.error = "INVALID_TASK"
              /\ (~missing /\ task.contextRequirement
                                  > getPersonaContextLimit(taskAgent'[task.id]))
                    => orchRet'.error = "CONTEXT_LIMIT_EXCEEDED"
              /\ orchRet'.error # "none"
                    => /\ taskQueue' = taskQueue
                       /\ orchRet'.emitted = "none"]_vars

\* a submission refused for its context requirement while tasks are queued
C14_RefusedWithQueue ==
    /\ orchRet.error = "CONTEXT_LIMIT_EXCEEDED"
    /\ TaskOf(orchRet.task).contextRequirement
          > getPersonaContextLimit(taskAgent[orchRet.task])
    /\ taskQueue # << >>

\* The score as documented: 10 per specialization of the agent among the
\* task's keywords, 8 for an idle agent, -5 for a working one, 5 for a
\* contextUsage below 80% of the contextLimit (both in percent of the capacity).
DocumentedScore(persona, keywords) ==
    LET matched == { sp \in Specializations(persona) : sp \in keywords }
        idle == IF agents[persona].status = "idle" THEN 8 ELSE 0
        busy == IF agents[persona].status = "working" THEN 5 ELSE 0
        room == IF agents[persona].contextUsage * 100 * 10
                     < getContextCapacity(persona) * getPersonaContextLimit(persona) * 8
                THEN 5 ELSE 0
    IN  10 * Cardinality(matched) + idle - busy + room

RosterIndex(persona) == CHOOSE i \in 1..Len(PersonaList) : PersonaList[i] = persona

\* C15 (deterministic selection). The agent assignTask selects for a task
\* without an assigned agent has the highest documented score of the roster,
\* and every agent with the same score is declared after it.
C15_SelectsFirstBest ==
    [][\A t \in TaskIds :
          Selected(t) =>
              \A q \in Personas :
                  /\ DocumentedScore(q, TaskOf(t).keywords)
                        <= DocumentedScore(taskAgent'[t], TaskOf(t).keywords)
                  /\ DocumentedScore(q, TaskOf(t).keywords)
                        = DocumentedScore(taskAgent'[t], TaskOf(t).keywords)
                        => RosterIndex(taskAgent'[t]) <= RosterIndex(q)]_vars

\* a tie at the highest score was broken: the selected agent is not the one
\* matching the task, which is in error with little room left
C15_TieBroken ==
    /\ taskAgent["t4"] = "requirements-analyst"
    /\ agents["frontend-developer"].status = "error"
    /\ agents["frontend-developer"].contextUsage > 0
    /\ agents["ui-ux-designer"].status = "idle"

\* The step in which addContext call k throws.
Rejects(k) == addCalls'[k].pc = "failed" /\ addCalls[k].pc # "failed"

\* C16 (eviction correctness). As the specification states it: an addContext
\* whose item is no larger than the ceiling (maxPercentage of the capacity)
\* succeeds, after evicting what it has to; only a larger item is rejected.
\* performAutomaticCleanup plans its removals by item and carries them out by
\* path, and removeContext takes the first item of that path: with two items of
\* one path the smaller one may go, and the second check then fails.
C16_FitsAfterEviction ==
    [][\A k \in AddSlots :
          Rejects(k) =>
              PercentAbove(addCalls'[k].size, addCalls'[k].persona, maxPercentage)]_vars

\* C17 (rejected reservation). The step in which an addContext throws leaves
\* the window's items and currentUsage as they were; the error carries the
\* attempted usage, currentUsage plus the item's size, which is above the
\* limit percentage it carries with it, maxPercentage.
C17_RejectedNotReserved ==
    [][\A k \in AddSlots :
          Rejects(k) =>
              LET persona == addCalls'[k].persona
              IN  /\ contextWindows'[persona] = contextWindows[persona]
                  /\ addCalls'[k].usage
                        = contextWindows'[persona].currentUsage + addCalls'[k].size
                  /\ addCalls'[k].limit = maxPercentage
                  /\ PercentAbove(addCalls'[k].usage, persona, addCalls'[k].limit)]_vars

\* an addContext has thrown after evicting, and the window still holds items
C17_RejectedAfterEviction ==
    \E k \in AddSlots :
        /\ addCalls[k].pc = "failed"
        /\ addCalls[k].evicted
        /\ contextWindows[addCalls[k].persona].items # << >>

RECURSIVE SumOfSizes(_)
SumOfSizes(items) ==
    IF items = << >> THEN 0 ELSE Head(items).size + SumOfSizes(Tail(items))

ActualUsage == [p \in Personas |-> contextWindows[p].currentUsage]

\* agentUsage and totalUsage as they are after the step: the entry of every
\* persona is its actual percentage, the total their mean.
TrackedAfter ==
    /\ agentUsage' = [p \in Personas |-> contextWindows'[p].currentUsage]
    /\ totalUsage' = updateTotalUsage(agentUsage')

\* C19 (aggregate usage). As the specification states it: when a mutation of
\* the ledger returns, agentUsage holds every persona's actual percentage and
\* totalUsage their mean. Checked at the return of addContext, at the steps of
\* removeContext and cleanup, and at the end of emergencyCleanup. addContext
\* stores the usagePercentage it computed before its cleanup evicted anything.
C19_AggregateTracksWindows ==
    [][/\ \A k \in AddSlots :
             (addCalls[k].pc = "persisting" /\ addCalls'[k].pc = "idle")
                 => /\ agentUsage = ActualUsage
                    /\ totalUsage = updateTotalUsage(ActualUsage)
       /\ (contextWindows' # contextWindows /\ addCalls' = addCalls
               /\ emergencyCall' = emergencyCall)
             => TrackedAfter
       /\ (emergencyCall.pc # "idle" /\ emergencyCall'.pc = "idle")
             => TrackedAfter]_vars

\* C20 (release). In every state, removeContext of a path that no item of the
\* persona's window has returns false and leaves the ledger (items,
\* currentUsage, agentUsage, totalUsage) as it is; removeContext of a path
\* that is there returns true, takes out the first item of that path and
\* lowers currentUsage by that item's size, the other windows untouched.
C20_ReleaseFrame ==
    \A p \in LedgerPersonas : \A path \in ItemPaths :
        LET r == removeContextOp(Ledger, p, path)
            items == contextWindows[p].items
            idx == IndexOfPath(items, path)
        IN  IF \A i \in 1..Len(items) : items[i].path # path
            THEN r.found = FALSE /\ r.l = Ledger
            ELSE /\ r.found = TRUE
                 /\ r.l.w[p].items = RemoveAt(items, idx)
                 /\ r.l.w[p].currentUsage
                       = contextWindows[p].currentUsage - items[idx].size
                 /\ \A q \in Personas \ {p} : r.l.w[q] = contextWindows[q]

\* a window that holds items, with a stale agentUsage entry, and does not hold
\* a path callers ask to remove
C20_AbsentPathStaleUsage ==
    \E p \in LedgerPersonas :
        /\ contextWindows[p].items # << >>
        /\ agentUsage[p] # contextWindows[p].currentUsage
        /\ \A i \in 1..Len(contextWindows[p].items) :
              contextWindows[p].items[i].path # "/none"

\* C21 (auto-approval). A requestPermission call for an operation that does
\* not require approval returns at once an approved response with respondedBy
\* "system": the call is done in the step that makes it, no request is
\* created, the pending set stays as it is, nothing is sent and no timer is
\* set up.
C21_AutoApproval ==
    [][\A a \in GateAgents : \A cmd \in GateCommands : \A ctx \in GateContexts :
          (/\ Len(calls') = Len(calls) + 1
           /\ ~requiresApproval(cmd, assessRisk(cmd, ctx).level)
           /\ RequestPermission(a, cmd, ctx))
          => LET c == Len(calls')
             IN  /\ c = Len(calls) + 1
                 /\ calls'[c].pc = "done"
                 /\ calls'[c].error = "none"
                 /\ calls'[c].result.approved
                 /\ calls'[c].result.respondedBy = "system"
                 /\ c \notin DOMAIN requests'
                 /\ pendingRequests' = pendingRequests
                 /\ c \notin DOMAIN sent'
                 /\ c \notin DOMAIN timers'
                 /\ permissionHistory' = permissionHistory]_vars

\* a call that came back approved by the system without a request
C21_AutoApproved ==
    \E c \in 1..Len(calls) :
        /\ calls[c].pc = "done"
        /\ calls[c].result.approved
        /\ calls[c].result.respondedBy = "system"
        /\ c \notin Created

C23_RuleLevelWins ==
    (riskRet.op = "assessRisk" /\ riskRet.command.matches # {})
    => LET ruleLevel ==
               CHOOSE l \in RiskLevels :
                  /\ \E i \in riskRet.command.matches : permissionRules[i].riskLevel = l
                  /\ \A i \in riskRet.command.matches :
                        getRiskScore(permissionRules[i].riskLevel) <= getRiskScore(l)
           scoreLevel ==
               IF riskRet.score >= 80 THEN "critical"
               ELSE IF riskRet.score >= 50 THEN "high"
               ELSE IF riskRet.score >= 20 THEN "medium" ELSE "low"
       IN  ruleLevel # scoreLevel => riskRet.level = ruleLevel

C25_HistoryHoldsResolved ==
    \A limit \in HistoryLimits :
        LET history == getPermissionHistory(limit)
        IN  /\ Len(history) <= limit
            /\ \A id \in Created :
                  requests[id].status \in {"approved", "denied"}
                  => /\ Len(getPermissionHistory(100)) > 0
                     /\ \E i \in 1..Len(getPermissionHistory(100)) :
                           /\ getPermissionHistory(100)[i].request = requests[id]
                           /\ getPermissionHistory(100)[i].response = permissionHistory[id]

\* C26 (unknown request). respondToRequest or cancelRequest with an id that
\* was never created fails with REQUEST_NOT_FOUND and leaves the pending set
\* and the history as they were.
C26_UnknownIdRefused ==
    [][\A id \in RequestIds :
          (/\ id \notin Created
           /\ gateRet'.id = id
           /\ \/ \E r \in ResponseInputs : \E ok \in BOOLEAN : RespondToRequest(id, r, ok)
              \/ \E reason \in CancelReasons : CancelRequest(id, reason))
          => /\ gateRet'.id = id
             /\ gateRet'.error = "REQUEST_NOT_FOUND"
             /\ gateRet'.emitted = << >>
             /\ pendingRequests' = pendingRequests
             /\ permissionHistory' = permissionHistory
             /\ requests' = requests]_vars

\* a cancelRequest refused for an id no request has
C26_CancelOfUnknownId ==
    /\ gateRet.op = "cancelRequest"
    /\ gateRet.error = "REQUEST_NOT_FOUND"
    /\ gateRet.id \notin Created
    /\ permissionHistory = << >>

\* C27 (cancellation). cancelRequest on a pending request takes it out of the
\* pending set, gives it the status a timeout gives (expired) and records a
\* denial (approved = false) with the caller's reason; a requestPermission call
\* that waits on a cancelled request, or reaches its wait after the
\* cancellation, ends denied, with the recorded reason.
C27_CancelDenies ==
    [][/\ \A id \in RequestIds : \A reason \in CancelReasons :
             (/\ id \in pendingRequests
              /\ gateRet'.op = "cancelRequest" /\ gateRet'.id = id
              /\ CancelRequest(id, reason))
             => /\ id \notin pendingRequests'
                /\ requests'[id].status = "expired"
                /\ id \in DOMAIN permissionHistory'
                /\ ~permissionHistory'[id].approved
                /\ permissionHistory'[id].reason = reason
                /\ gateRet'.error = "none"
       /\ \A c \in Created :
             (/\ requests[c].status = "expired"
              /\ calls[c].pc \in {"push", "waiting"} /\ calls'[c].pc = "done"
              /\ calls'[c].push # "failed")
             => /\ calls'[c].error = "PERMISSION_DENIED"
                /\ ~calls'[c].result.approved
                /\ calls'[c].result.reason = permissionHistory[c].reason]_vars

\* a waiting call that ended denied with the reason given to cancelRequest
C27_WaiterDeniedWithReason ==
    \E c \in Created :
        /\ requests[c].status = "expired"
        /\ permissionHistory[c].reason \in CancelReasons
        /\ timers[c] = "armed"
        /\ calls[c].pc = "done" /\ calls[c].error = "PERMISSION_DENIED"
        /\ calls[c].result.reason = permissionHistory[c].reason

\* C29 (emergency stop is terminal). From an emergencyStop until start() is
\* called again (only emergencyStop gives an agent the status error, and
\* isRunning stays false over the step), no task is dispatched and every agent
\* in status error keeps that status: the completion of the task that was in
\* flight does not put it back to idle.
C29_StoppedStaysStopped ==
    [][(~isRunning /\ ~isRunning')
          => /\ \A t \in TaskIds : ~Dispatched(t)
             /\ \A p \in Personas :
                   agents[p].status = "error" => agents'[p].status = "error"]_vars

\* C28 (emergency stop post-state). When emergencyStop returns, the task queue
\* is empty, every agent that was busy when it was called has status error and
\* no current task, the active set is empty, every window has no items and
\* zero usage, and the aggregate usage is 0.
C28_StoppedOnReturn ==
    [][(\/ EmergencyStop /\ emergencyCall'.pc = "idle"
        \/ emergencyCall.pc = "cleaning" /\ emergencyCall'.pc = "idle")
          => LET busy == IF emergencyCall.pc = "cleaning" THEN emergencyCall.marked
                         ELSE { activeAgents[i] : i \in 1..Len(activeAgents) }
             IN  /\ taskQueue' = << >>
                 /\ \A p \in busy : /\ agents'[p].status = "error"
                                    /\ agents'[p].currentTask = NoTask
                 /\ activeAgents' = << >>
                 /\ \A p \in Personas : /\ contextWindows'[p].items = << >>
                                        /\ contextWindows'[p].currentUsage = 0
                 /\ totalUsage' = 0]_vars

\* The state an emergencyStop leaves when nothing else runs during it.
Stopped ==
    /\ ~isRunning
    /\ taskQueue = << >>
    /\ activeAgents = << >>
    /\ \A p \in Personas : contextWindows[p] = [items |-> << >>, currentUsage |-> 0]
    /\ agentUsage = [p \in Personas |-> 0]
    /\ totalUsage = 0
    /\ emergencyCall = NoEmergency

\* C30 (idempotence). emergencyStop called again in the stopped state returns
\* at once and leaves isRunning, the queue, the agents, the active set and the
\* ledger exactly as they are.
C30_SecondStopChangesNothing ==
    [][(EmergencyStop /\ Stopped)
          => /\ emergencyCall' = NoEmergency
             /\ UNCHANGED << isRunning, taskQueue, agents, activeAgents, contextWindows,
                             agentUsage, totalUsage >>]_vars

\* the stopped state with an agent in error that an emergencyStop left, the
\* task that was in flight still executing, and a lifecycle call to go
C30_StoppedWithErroredAgent ==
    /\ Stopped
    /\ lifecycleCalls < MaxLifecycleCalls
    /\ \E p \in Personas : agents[p].status = "error"
    /\ executingTasks # {}

\* C31  Release on finish: at the step where executeTask ends for a task that
\* was dispatched, the task is completed or failed as its execution ended, its
\* agent is idle with no current task and off the active set, the agent's
\* window is empty with usage 0, and exactly one of task.completed and
\* task.failed has been emitted for the execution.
C31_ReleasedOnFinish ==
    [][\A l \in LoopIds :
          (loops[l].pc = "stopping" /\ loops'[l].pc = "pause") =>
             LET id == loops[l].task
                 persona == taskAgent[id]
             IN  /\ taskStatus'[id] =
                       (IF loops[l].error = NoError THEN "completed" ELSE "failed")
                 /\ agents'[persona].status = "idle"
                 /\ agents'[persona].currentTask = NoTask
                 /\ agents'[persona].contextUsage = 0
                 /\ \A i \in 1..Len(activeAgents') : activeAgents'[i] # persona
                 /\ contextWindows'[persona].items = << >>
                 /\ contextWindows'[persona].currentUsage = 0
                 /\ loops'[l].emitted =
                       (IF loops[l].error = NoError THEN << "task.completed" >>
                        ELSE << "task.failed" >>)]_vars


\* C32  Eviction order: every item the automatic cleanup removes is of the
\* lowest type priority present (config < dependency < file < interface), so
\* that no item of a lower-priority type remains in the window once an item
\* of a higher-priority type has been evicted, also when items share a path.
C32_EvictionOrder ==
    [][\A k \in AddSlots :
          (addCalls'[k].pc = "evicting" /\ addCalls'[k] # addCalls[k]) =>
             LET before == contextWindows[addCalls'[k].persona].items
                 after == contextWindows'[addCalls'[k].persona].items
             IN  \E i \in 1..Len(before) :
                    /\ after = RemoveAt(before, i)
                    /\ \A j \in 1..Len(after) :
                          typePriority(after[j].type) >= typePriority(before[i].type)]_vars

\* C33  Minimal eviction: the automatic cleanup stops as soon as the new item
\* fits, so an item is evicted only while the window's usage plus the size of
\* the new item is still above capacity x 40%.
C33_MinimalEviction ==
    [][\A k \in AddSlots :
          (addCalls'[k].pc = "evicting" /\ addCalls'[k] # addCalls[k]) =>
             PercentAbove(contextWindows[addCalls'[k].persona].currentUsage
                             + addCalls'[k].size,
                          addCalls'[k].persona, maxPercentage)]_vars

\* C34  Warning event: an addContext that succeeds emits context.warning
\* exactly when the usage of the persona's window, after any eviction and
\* after the item is appended, is at least 35% of the capacity.
C34_WarningAtThreshold ==
    [][\A k \in AddSlots :
          (addCalls'[k].pc = "persisting" /\ addCalls[k].pc # "persisting") =>
             (addCalls'[k].warning <=>
                 PercentAtLeast(contextWindows'[addCalls'[k].persona].currentUsage,
                                addCalls'[k].persona, warningThreshold))]_vars

\* C35  Concurrent admissions serialize: with two addContext calls and
\* removeContext calls on one persona's window interleaving at their awaits,
\* in every state the window's currentUsage is the sum of the sizes of its
\* items, and once the addContext calls have returned it is no more than
\* capacity x 40%.
C35_ConcurrentAddsKeepLedger ==
    \A p \in ConcurrentPersonas :
        /\ contextWindows[p].currentUsage = SumOfSizes(contextWindows[p].items)
        /\ (\A k \in ConcurrentSlots : addCalls[k].pc = "idle")
              => ~PercentAbove(contextWindows[p].currentUsage, p, maxPercentage)

\* two addContext calls on one window in flight, the first after an eviction,
\* and both have pushed their items
C35_TwoAddsInFlight ==
    /\ addCalls[1].pc = "persisting"
    /\ addCalls[1].evicted
    /\ addCalls[2].pc = "persisting"
    /\ addCalls[2].persona = addCalls[1].persona
    /\ Len(contextWindows[addCalls[1].persona].items) >= 2

\* C36  Bounded concurrency: in every state, also after any sequence of
\* start() and stop() calls made while tasks are in flight, the executor's
\* executingTasks holds at most maxConcurrentTasks = 3 tasks.
C36_BoundedConcurrency == Cardinality(executingTasks) <= maxConcurrentTasks

\* The drain loop l has put task t back on the queue and is in its pause.
Requeued(l, t) == loops[l].pc = "pause" /\ loops[l].task = t

\* Task t is off the queue and out of every drain loop's hands, completed or failed.
Finished(t) ==
    /\ taskStatus[t] \in {"completed", "failed"}
    /\ \A i \in 1..Len(taskQueue) : taskQueue[i] # t
    /\ \A l \in LoopIds : loops[l].task # t

\* C37  Re-enqueue instead of blocking: a drain loop that pops a task whose
\* agent is not idle puts the task at the end of the queue, with its status,
\* the agents and the active set as they were and no task event, and goes on
\* to its pause; and as long as the orchestrator keeps running, with worker
\* logic that ends, every task put back is eventually dispatched and ends
\* completed or failed.
C37_RequeuedThenFinished ==
    /\ [][\A l \in LoopIds : \A t \in TaskIds :
             (Requeued(l, t)' /\ loops'[l] # loops[l]) =>
                 /\ agents[taskAgent[t]].status # "idle"
                 /\ taskQueue' # << >>
                 /\ taskQueue'[Len(taskQueue')] = t
                 /\ taskStatus' = taskStatus
                 /\ agents' = agents
                 /\ activeAgents' = activeAgents
                 /\ executingTasks' = executingTasks
                 /\ loops'[l].emitted = << >>]_vars
    /\ \A t \in TaskIds :
          (\E l \in LoopIds : Requeued(l, t)) ~> (Finished(t) \/ ~isRunning)

\* a drain loop in its pause after putting a task back whose agent is in error
C37_RequeuedForErroredAgent ==
    \E l \in LoopIds : \E t \in TaskIds :
        /\ Requeued(l, t)
        /\ isRunning
        /\ agents[taskAgent[t]].status = "error"
        /\ \E i \in 1..Len(taskQueue) : taskQueue[i] = t

\* C38  One task per worker: in every state, also after stop() or
\* emergencyStop() followed by start() while a task is in flight, no agent has
\* two tasks in progress at once, and an agent is in the active set exactly
\* when its status is working and it holds a current task.
C38_OneTaskPerWorker ==
    \A p \in Personas :
        /\ \A l, k \in LoopIds :
              (/\ loops[l].pc = "running"
               /\ loops[k].pc = "running"
               /\ taskAgent[loops[l].task] = p
               /\ taskAgent[loops[k].task] = p) => l = k
        /\ (\E i \in 1..Len(activeAgents) : activeAgents[i] = p)
              <=> (agents[p].status = "working" /\ agents[p].currentTask # NoTask)

====
